---- MODULE Spec2Model ----
(***************************************************************************)
(* A model of the surface element graph of blocksuite:                     *)
(*   - SurfaceBlockModel (framework/std gfx/model/surface/surface-model.ts)*)
(*   - its affine subclass with the connector endpoint index               *)
(* The CRDT storage is modelled by what the surface model relies on: maps  *)
(* written inside transactions, whose observers run when the outermost     *)
(* transaction ends, one observer call per changed type, in the order in   *)
(* which the types were first changed.                                     *)
(***************************************************************************)
EXTENDS Integers, Sequences, FiniteSets, TLC

\* Number of element ids nanoid() hands out in one behaviour.
MaxId == 2
\* Number of calls grouped inside one outer store.transact.
MaxTxOps == 2

Ids == 1..MaxId
\* Child blocks of the surface block (block-backed children of groups).
BlockIds == {0}
AllIds == Ids \cup BlockIds

----------------------------------------------------------------------------
\* JS Map / Set / Array helpers

EmptyMap == [x \in {} |-> x]
MapSet(m, k, v) == [x \in (DOMAIN m) \cup {k} |-> IF x = k THEN v ELSE m[x]]
MapDelete(m, k) == [x \in (DOMAIN m) \ {k} |-> m[x]]

SeqSet(s) == {s[i] : i \in 1..Len(s)}
InSeq(x, s) == \E i \in 1..Len(s) : s[i] = x
SeqRemove(s, x) == SelectSeq(s, LAMBDA y : y # x)
SeqAddUnique(s, x) == IF InSeq(x, s) THEN s ELSE Append(s, x)
IndexOf(s, x) == CHOOSE i \in 1..Len(s) : s[i] = x

MinOf(S) == CHOOSE x \in S : \A y \in S : x <= y

RECURSIVE SetToSeq(_)
SetToSeq(S) == IF S = {} THEN << >> ELSE <<MinOf(S)>> \o SetToSeq(S \ {MinOf(S)})

----------------------------------------------------------------------------
VARIABLES
  elements,           \* this.elements.getValue(): id -> stored record (Y.Map of Y.Map)
  blockStore,         \* ids of the blocks the store holds (store.hasBlock)
  models,             \* _elementModels: id -> element model
  typeMap,            \* _elementTypeMap: type -> array of ids
  groupLike,          \* _groupLikeModels: insertion-ordered ids of known groups
  parentGroupMap,     \* _parentGroupMap: child id -> group id
  groupChildIdsMap,   \* _groupChildIdsMap: group id -> children snapshot
  connByEndpoint,     \* _connectorIdsByEndpoint: endpoint id -> set of connector ids
  connEndpoints,      \* _connectorEndpoints: connector id -> cached pair
  isEmptyFlag,        \* _isEmpty$
  nextId,             \* the next id nanoid() returns
  pc,                 \* "idle", "tx" (an outer store.transact is open), "cleanup"
  tx,                 \* the open transaction
  cleanups,           \* doc._transactionCleanups: transactions whose observers are due
  batch,              \* the running onElementsMapChange call
  hist,               \* what the claims need to remember of the run
  readonly,           \* store.readonly
  middlewares,        \* _middlewares: the registered middlewares, in order
  last,               \* the public call that has just returned, for the claims
  walk,               \* a call of a tree utility (utils/tree.ts) and the graph it walks
  ungroup,            \* a call of ungroupCommand and the elements it works on
  field,              \* a persisted field of an element model: stored value and overlay
  coalescer,          \* a RafCoalescer (raf-coalescer.ts) and the frames it requested
  controller          \* an AdaptiveStrideController (adaptive-load-controller.ts)

vars == <<elements, blockStore, models, typeMap, groupLike, parentGroupMap,
          groupChildIdsMap, connByEndpoint, connEndpoints, isEmptyFlag, nextId,
          pc, tx, cleanups, batch, hist, readonly, middlewares, last,
          walk, ungroup, field, coalescer, controller>>

----------------------------------------------------------------------------
\* The group index: _parentGroupMap and _groupChildIdsMap.
\* idx is the pair [pm |-> parent map, cm |-> children snapshot map].

\* A sync that sets the new entries and the snapshot but leaves the entries of
\* the previous children in place
SyncKeepingPrevious(idx, groupId, nextChildIds, prev) ==
  [pm |-> [x \in (DOMAIN idx.pm) \cup nextChildIds |->
             IF x \in nextChildIds THEN groupId ELSE idx.pm[x]],
   cm |-> MapSet(idx.cm, groupId, nextChildIds)]

\* A sync that sets the new entries first and clears the entries of the previous
\* children afterwards
SyncClearingLast(idx, groupId, nextChildIds, prev) ==
  LET pm1 == [x \in (DOMAIN idx.pm) \cup nextChildIds |->
                IF x \in nextChildIds THEN groupId ELSE idx.pm[x]]
      cleared == {c \in prev \cap DOMAIN pm1 : pm1[c] = groupId}
  IN [pm |-> [x \in (DOMAIN pm1) \ cleared |-> pm1[x]],
      cm |-> MapSet(idx.cm, groupId, nextChildIds)]

\* _syncGroupChildrenIndex(groupId, nextChildIds, previousChildIds)
SyncGroupChildrenIndex(idx, groupId, nextChildIds, prev) ==
  LET cleared == {c \in prev \cap DOMAIN idx.pm : idx.pm[c] = groupId}
      pm1 == [x \in (DOMAIN idx.pm) \ cleared |-> idx.pm[x]]
      pm2 == [x \in (DOMAIN pm1) \cup nextChildIds |->
                IF x \in nextChildIds THEN groupId ELSE pm1[x]]
  IN [pm |-> pm2, cm |-> MapSet(idx.cm, groupId, nextChildIds)]

\* _syncGroupChildrenIndex(groupId, nextChildIds): the previous list is looked up
SyncGroupChildrenIndexLookup(idx, groupId, nextChildIds) ==
  SyncGroupChildrenIndex(idx, groupId, nextChildIds,
    IF groupId \in DOMAIN idx.cm THEN idx.cm[groupId] ELSE {})

\* _removeGroupFromChildrenIndex(groupId)
RemoveGroupFromChildrenIndex(idx, groupId) ==
  LET prev == IF groupId \in DOMAIN idx.cm THEN idx.cm[groupId] ELSE {}
      cleared == {c \in prev \cap DOMAIN idx.pm : idx.pm[c] = groupId}
  IN [pm |-> [x \in (DOMAIN idx.pm) \ cleared |-> idx.pm[x]],
      cm |-> MapDelete(idx.cm, groupId)]

\* group.hasChild(model) for a known group whose childIds are cof[g]
HasChild(cof, g, x) == g \in DOMAIN cof /\ x \in cof[g]

\* A getGroup that leaves the entry of an unknown parent in place
GetGroupKeepingStale(pm, gl, cof, resolvable, x) ==
  IF x \in DOMAIN pm /\ InSeq(pm[x], gl)
    THEN [group |-> {pm[x]}, pm |-> pm]
    ELSE LET hits == {i \in 1..Len(gl) : HasChild(cof, gl[i], x)}
         IN IF x \notin resolvable \/ hits = {}
              THEN [group |-> {}, pm |-> pm]
              ELSE [group |-> {gl[MinOf(hits)]},
                    pm |-> MapSet(pm, x, gl[MinOf(hits)])]

\* getGroup(id): gl is _groupLikeModels in insertion order, cof the childIds of
\* each known group, resolvable the ids that resolve to an element or block model.
\* Returns the group (a set of at most one id) and the parent map afterwards.
GetGroup(pm, gl, cof, resolvable, x) ==
  IF x \in DOMAIN pm /\ InSeq(pm[x], gl)
    THEN [group |-> {pm[x]}, pm |-> pm]
    ELSE LET pm1 == MapDelete(pm, x)
             hits == {i \in 1..Len(gl) : HasChild(cof, gl[i], x)}
         IN IF x \notin resolvable \/ hits = {}
              THEN [group |-> {}, pm |-> pm1]
              ELSE [group |-> {gl[MinOf(hits)]},
                    pm |-> MapSet(pm1, x, gl[MinOf(hits)])]

\* A chain walk that pushes the group before it looks it up in visited
RECURSIVE GetGroupsPushFirst(_, _, _, _, _, _, _)
GetGroupsPushFirst(pm, gl, cof, resolvable, group, visited, groups) ==
  IF group = {} THEN [groups |-> groups, pm |-> pm, cut |-> FALSE]
  ELSE LET g == MinOf(group)
           r == GetGroup(pm, gl, cof, resolvable, g)
       IN IF g \in visited
            THEN [groups |-> Append(groups, g), pm |-> pm, cut |-> TRUE]
            ELSE GetGroupsPushFirst(r.pm, gl, cof, resolvable, r.group,
                                    visited \cup {g}, Append(groups, g))

\* The while loop of getGroups: group is the group looked at ({} is null);
\* cut says that the cycle warning was logged
RECURSIVE GetGroupsLoop(_, _, _, _, _, _, _)
GetGroupsLoop(pm, gl, cof, resolvable, group, visited, groups) ==
  IF group = {} THEN [groups |-> groups, pm |-> pm, cut |-> FALSE]
  ELSE LET g == MinOf(group)
           r == GetGroup(pm, gl, cof, resolvable, g)
       IN IF g \in visited
            THEN [groups |-> groups, pm |-> pm, cut |-> TRUE]
            ELSE GetGroupsLoop(r.pm, gl, cof, resolvable, r.group,
                               visited \cup {g}, Append(groups, g))

\* getGroups(id)
GetGroups(pm, gl, cof, resolvable, id) ==
  LET r == GetGroup(pm, gl, cof, resolvable, id)
  IN GetGroupsLoop(r.pm, gl, cof, resolvable, r.group, {}, << >>)

\* hasDescendantElementImpl(container, element): walks element.group,
\* element.group.group, ... (each step a getGroup call) until it meets the
\* container or the chain ends; seen holds the groups passed, a chain that comes
\* back to one of them never ends.
RECURSIVE HasDescendantElementImpl(_, _, _, _, _, _, _)
HasDescendantElementImpl(pm, gl, cof, resolvable, container, element, seen) ==
  LET r == GetGroup(pm, gl, cof, resolvable, element)
  IN IF r.group = {} THEN [found |-> FALSE, hangs |-> FALSE, pm |-> r.pm]
     ELSE LET parent == MinOf(r.group)
          IN IF parent = container
               THEN [found |-> TRUE, hangs |-> FALSE, pm |-> r.pm]
             ELSE IF parent \in seen
               THEN [found |-> FALSE, hangs |-> TRUE, pm |-> r.pm]
             ELSE HasDescendantElementImpl(r.pm, gl, cof, resolvable, container,
                                           parent, seen \cup {parent})

----------------------------------------------------------------------------
\* The connector endpoint index of the affine surface model.
\* cx is the pair [by |-> _connectorIdsByEndpoint, ep |-> _connectorEndpoints];
\* an endpoint id is a set of at most one id ({} is null).

AddConnectorEndpoint(by, endpointId, connectorId) ==
  IF endpointId \in DOMAIN by
    THEN [by EXCEPT ![endpointId] = @ \cup {connectorId}]
    ELSE MapSet(by, endpointId, {connectorId})

\* A removal that leaves the emptied set under its endpoint
RemoveConnectorEndpointKeepingKey(by, endpointId, connectorId) ==
  IF endpointId \notin DOMAIN by THEN by
  ELSE [by EXCEPT ![endpointId] = @ \ {connectorId}]

\* _removeConnectorEndpoint(endpointId, connectorId)
RemoveConnectorEndpoint(by, endpointId, connectorId) ==
  IF endpointId \notin DOMAIN by THEN by
  ELSE IF by[endpointId] \ {connectorId} = {} THEN MapDelete(by, endpointId)
  ELSE [by EXCEPT ![endpointId] = @ \ {connectorId}]

RECURSIVE RemoveEndpoints(_, _, _)
RemoveEndpoints(by, eps, connectorId) ==
  IF eps = << >> THEN by
  ELSE RemoveEndpoints(
         IF Head(eps) = {} THEN by
         ELSE RemoveConnectorEndpoint(by, MinOf(Head(eps)), connectorId),
         Tail(eps), connectorId)

RECURSIVE AddEndpoints(_, _, _)
AddEndpoints(by, eps, connectorId) ==
  IF eps = << >> THEN by
  ELSE AddEndpoints(
         IF Head(eps) = {} THEN by
         ELSE AddConnectorEndpoint(by, MinOf(Head(eps)), connectorId),
         Tail(eps), connectorId)

\* _removeConnectorFromIndex(connectorId)
RemoveConnectorFromIndex(cx, connectorId) ==
  IF connectorId \notin DOMAIN cx.ep THEN cx
  ELSE [by |-> RemoveEndpoints(cx.by,
                 <<cx.ep[connectorId].sourceId, cx.ep[connectorId].targetId>>,
                 connectorId),
        ep |-> MapDelete(cx.ep, connectorId)]

\* A resync that drops the associations of an unchanged pair and adds them
\* again only when the pair changed
SetConnectorEndpointsDropping(cx, connectorId, sourceId, targetId) ==
  LET has == connectorId \in DOMAIN cx.ep
      prevS == IF has THEN cx.ep[connectorId].sourceId ELSE {}
      prevT == IF has THEN cx.ep[connectorId].targetId ELSE {}
      removed == RemoveEndpoints(cx.by, <<prevS, prevT>>, connectorId)
  IN [by |-> IF has /\ prevS = sourceId /\ prevT = targetId THEN removed
             ELSE AddEndpoints(removed, <<sourceId, targetId>>, connectorId),
      ep |-> MapSet(cx.ep, connectorId,
                    [sourceId |-> sourceId, targetId |-> targetId])]

\* _setConnectorEndpoints(connector), connector.source?.id and connector.target?.id given
SetConnectorEndpoints(cx, connectorId, sourceId, targetId) ==
  LET has == connectorId \in DOMAIN cx.ep
      prevS == IF has THEN cx.ep[connectorId].sourceId ELSE {}
      prevT == IF has THEN cx.ep[connectorId].targetId ELSE {}
  IN IF has /\ prevS = sourceId /\ prevT = targetId THEN cx
     ELSE [by |-> AddEndpoints(RemoveEndpoints(cx.by, <<prevS, prevT>>, connectorId),
                               <<sourceId, targetId>>, connectorId),
           ep |-> MapSet(cx.ep, connectorId,
                         [sourceId |-> sourceId, targetId |-> targetId])]

\* staleConnectorIds.forEach(connectorId => this._removeConnectorFromIndex(connectorId))
RECURSIVE RemoveStale(_, _)
RemoveStale(cx, stale) ==
  IF stale = << >> THEN cx
  ELSE RemoveStale(RemoveConnectorFromIndex(cx, Head(stale)), Tail(stale))

\* A getConnectors that returns the live connectors and leaves the index alone
GetConnectorsLeavingStale(cx, m, id) ==
  LET ids == IF id \in DOMAIN cx.by THEN cx.by[id] ELSE {}
      stale == {c \in ids : ~(c \in DOMAIN m /\ m[c].type = "connector")}
  IN [res |-> ids \ stale, stale |-> SetToSeq(stale), cx |-> cx]

\* getConnectors(id): m is _elementModels; the connectors returned, the stale
\* ids found and the index afterwards
GetConnectors(cx, m, id) ==
  LET ids == IF id \in DOMAIN cx.by THEN cx.by[id] ELSE {}
      stale == {c \in ids : ~(c \in DOMAIN m /\ m[c].type = "connector")}
  IN [res |-> ids \ stale, stale |-> SetToSeq(stale),
      cx |-> RemoveStale(cx, SetToSeq(stale))]

----------------------------------------------------------------------------
\* Storage: the elements Y.Map and the transactions of the store.
\* A transaction records, in the order of the first change, every changed type:
\*   kind "elements": the elements map, keys = keysChanged in order
\*   kind "props":    the Y.Map of element id, props = the changed keys
\*   kind "children": the children Y.Map of group id
\* pre/created/deleted are what Y.YMapEvent.changes reads for the elements map:
\* the keys present before the transaction, the keys whose current item the
\* transaction created, and the keys whose current item it deleted.

ShapeRecord == [type |-> "shape", children |-> {}, source |-> {}, target |-> {}]
GroupRecord(children) ==
  [type |-> "group", children |-> children, source |-> {}, target |-> {}]
ConnectorRecord(source, target) ==
  [type |-> "connector", children |-> {}, source |-> source, target |-> target]

NewTx(el) ==
  [changed |-> << >>, pre |-> DOMAIN el, created |-> {}, deleted |-> {},
   blocks |-> << >>, calls |-> 0]

NoTx == NewTx(EmptyMap)

HasEntry(t, kind, id) ==
  \E i \in 1..Len(t.changed) : t.changed[i].kind = kind /\ t.changed[i].id = id

\* addChangedTypeToTransaction(transaction, type, key): a change is recorded for
\* the elements map and for the Y.Maps of the elements that were in storage
\* before the transaction; a Y.Map the transaction itself created calls no
\* observer for the changes that follow in the same transaction.
RecordChange(t, kind, id, keys, props) ==
  IF kind # "elements" /\ id \notin t.pre THEN t
  ELSE IF HasEntry(t, kind, id)
    THEN [t EXCEPT !.changed = [i \in 1..Len(t.changed) |->
            IF t.changed[i].kind = kind /\ t.changed[i].id = id
              THEN [t.changed[i] EXCEPT
                      !.keys = @ \o SelectSeq(keys, LAMBDA k : ~InSeq(k, @)),
                      !.props = @ \cup props]
              ELSE t.changed[i]]]
    ELSE [t EXCEPT !.changed =
            Append(@, [kind |-> kind, id |-> id, keys |-> keys, props |-> props])]

\* The state a transaction body reads and writes:
\*   el = elements, bs = blockStore, pm = _parentGroupMap, tx = the transaction.

\* this.elements.getValue().set(id, yMap)
YElementsSet(s, id, rec) ==
  [s EXCEPT !.el = MapSet(s.el, id, rec),
            !.tx = [RecordChange(s.tx, "elements", 0, <<id>>, {}) EXCEPT
                      !.created = @ \cup {id}, !.deleted = @ \ {id}]]

\* this.elements.getValue().delete(id): nothing happens when the key is absent
YElementsDelete(s, id) ==
  IF id \notin DOMAIN s.el THEN s
  ELSE [s EXCEPT !.el = MapDelete(s.el, id),
                 !.tx = [RecordChange(s.tx, "elements", 0, <<id>>, {}) EXCEPT
                           !.deleted = @ \cup {id}]]

\* Y.YMapEvent.changes.keys.get(key)?.action of the elements map event of t
YAction(t, key) ==
  IF key \in t.created
    THEN IF key \in t.deleted
           THEN IF key \in t.pre THEN "delete" ELSE "none"
           ELSE IF key \in t.pre THEN "update" ELSE "add"
    ELSE IF key \in t.deleted /\ key \in t.pre THEN "delete" ELSE "none"

\* group.removeChild(element) of a group element: children.delete(id) in a
\* (nested) transaction; a group that is not in storage has nothing to delete
GroupRemoveChild(s, g, id) ==
  IF g \notin DOMAIN s.el THEN s
  ELSE IF id \notin s.el[g].children THEN s
  ELSE [s EXCEPT !.el = [@ EXCEPT ![g].children = @ \ {id}],
                 !.tx = RecordChange(s.tx, "children", g, << >>, {})]

\* group.addChild(element): children.set(id, true)
GroupAddChild(s, g, id) ==
  IF g \notin DOMAIN s.el THEN s
  ELSE [s EXCEPT !.el = [@ EXCEPT ![g].children = @ \cup {id}],
                 !.tx = RecordChange(s.tx, "children", g, << >>, {})]

\* element[key] = value of a field of a stored element: yMap.set(key, value)
ElementSetSource(s, id, v) ==
  [s EXCEPT !.el = [@ EXCEPT ![id].source = v],
            !.tx = RecordChange(s.tx, "props", id, << >>, {"source"})]
ElementSetTarget(s, id, v) ==
  [s EXCEPT !.el = [@ EXCEPT ![id].target = v],
            !.tx = RecordChange(s.tx, "props", id, << >>, {"target"})]
ElementSetOther(s, id) ==
  [s EXCEPT !.tx = RecordChange(s.tx, "props", id, << >>, {"other"})]

\* store.deleteBlock(block): the block leaves the store and blockUpdated
\* {type: 'delete'} is due when the transaction ends
StoreDeleteBlock(s, b) ==
  [s EXCEPT !.bs = @ \ {b}, !.tx = [@ EXCEPT !.blocks = Append(@, b)]]

----------------------------------------------------------------------------
\* deleteElement

\* The childIds of every known group, read from the element models
ChildIdsOf(m, gl) ==
  [g \in SeqSet(gl) \cap DOMAIN m |-> m[g].childIds]

\* A collection that lists a group before its children (pre-order)
RECURSIVE CollectPreOrder(_, _, _, _)
RECURSIVE CollectChildrenPreOrder(_, _, _, _)
CollectPreOrder(id, acc, m, bs) ==
  IF id \in acc.ids THEN acc
  ELSE IF id \notin DOMAIN m THEN acc
  ELSE LET a1 == [acc EXCEPT !.ids = @ \cup {id}, !.ordered = Append(@, id)]
       IN IF m[id].type = "group"
            THEN CollectChildrenPreOrder(SetToSeq(m[id].childIds), a1, m, bs)
            ELSE a1
CollectChildrenPreOrder(cs, acc, m, bs) ==
  IF cs = << >> THEN acc
  ELSE CollectChildrenPreOrder(Tail(cs),
         IF Head(cs) \in DOMAIN m THEN CollectPreOrder(Head(cs), acc, m, bs)
         ELSE IF Head(cs) \in bs THEN [acc EXCEPT !.blocks = @ \cup {Head(cs)}]
         ELSE acc,
         m, bs)

\* _collectElementsToDelete(id, deleteElementIds, orderedDeleteIds, deleteBlockIds)
\* acc = [ids, ordered, blocks]; m = _elementModels, bs = the blocks of the store
RECURSIVE CollectElementsToDelete(_, _, _, _)
RECURSIVE CollectChildren(_, _, _, _)
CollectElementsToDelete(id, acc, m, bs) ==
  IF id \in acc.ids THEN acc
  ELSE IF id \notin DOMAIN m THEN acc
  ELSE LET a1 == [acc EXCEPT !.ids = @ \cup {id}]
           a2 == IF m[id].type = "group"
                   THEN CollectChildren(SetToSeq(m[id].childIds), a1, m, bs)
                   ELSE a1
       IN [a2 EXCEPT !.ordered = Append(@, id)]
CollectChildren(cs, acc, m, bs) ==
  IF cs = << >> THEN acc
  ELSE CollectChildren(Tail(cs),
         IF Head(cs) \in DOMAIN m THEN CollectElementsToDelete(Head(cs), acc, m, bs)
         ELSE IF Head(cs) \in bs THEN [acc EXCEPT !.blocks = @ \cup {Head(cs)}]
         ELSE acc,
         m, bs)

EmptyAcc == [ids |-> {}, ordered |-> << >>, blocks |-> {}]

\* _removeFromParentGroupIfNeeded(element, deleteElementIds)
RemoveFromParentGroupIfNeeded(s, id, del, m, gl) ==
  IF id \in DOMAIN s.pm /\ s.pm[id] \in del THEN s
  ELSE LET direct == id \in DOMAIN s.pm /\ InSeq(s.pm[id], gl)
           gg == IF direct THEN [group |-> {s.pm[id]}, pm |-> s.pm]
                 ELSE GetGroup(s.pm, gl, ChildIdsOf(m, gl),
                               (DOMAIN m) \cup s.bs, id)
           s1 == [s EXCEPT !.pm = gg.pm]
       IN IF gg.group # {} /\ gg.group \cap del = {}
            THEN GroupRemoveChild(s1, MinOf(gg.group), id)
            ELSE s1

\* A loop that removes the first collected id and leaves the others to later
\* transactions
DeleteFirstOnly(s, ordered, del, m, gl) ==
  IF ordered = << >> \/ Head(ordered) \notin DOMAIN m THEN s
  ELSE YElementsDelete(s, Head(ordered))

\* the body of the transaction of deleteElement: orderedDeleteIds.forEach(...)
RECURSIVE DeleteOrdered(_, _, _, _, _)
DeleteOrdered(s, ordered, del, m, gl) ==
  IF ordered = << >> THEN s
  ELSE DeleteOrdered(
         IF Head(ordered) \notin DOMAIN m THEN s
         ELSE YElementsDelete(
                RemoveFromParentGroupIfNeeded(s, Head(ordered), del, m, gl),
                Head(ordered)),
         Tail(ordered), del, m, gl)

\* ... then deleteBlockIds.forEach(...)
RECURSIVE DeleteBlocks(_, _, _, _, _)
DeleteBlocks(s, blocks, del, m, gl) ==
  IF blocks = << >> THEN s
  ELSE DeleteBlocks(
         IF Head(blocks) \notin s.bs THEN s
         ELSE StoreDeleteBlock(
                RemoveFromParentGroupIfNeeded(s, Head(blocks), del, m, gl),
                Head(blocks)),
         Tail(blocks), del, m, gl)

\* deleteElement(id) on a writable store, run inside the transaction s.tx
DoDeleteElement(s, id, m, gl) ==
  IF id \notin DOMAIN m THEN s
  ELSE LET acc == CollectElementsToDelete(id, EmptyAcc, m, s.bs)
       IN DeleteBlocks(DeleteOrdered(s, acc.ordered, acc.ids, m, gl),
                       SetToSeq(acc.blocks), acc.ids, m, gl)

----------------------------------------------------------------------------
\* The surface model as a state machine

NoBatch == [active |-> FALSE, keys |-> << >>, all |-> << >>, added |-> << >>,
            removed |-> << >>, sent |-> 0]

NoDelete == [on |-> FALSE, id |-> 0, group |-> FALSE, ids |-> {}, blocks |-> {},
             order |-> << >>, reach |-> {}, edges |-> {}]

NoGot == [on |-> FALSE, id |-> 0, res |-> {}]

\* No public call has just returned
NoCall == [op |-> "none", id |-> 0, threw |-> "none", log |-> << >>, res |-> {}]

NoWalk == [op |-> "none"]
NoUngroup == [op |-> "none"]
NoField == [op |-> "none"]
NoCoalescer == [op |-> "none"]
NoController == [op |-> "none"]
NoPointerUtility == coalescer = NoCoalescer /\ controller = NoController

\* No utility call is in progress and none was made
NoUtility == walk = NoWalk /\ ungroup = NoUngroup /\ field = NoField /\ NoPointerUtility

SurfaceInit ==
  /\ elements = EmptyMap
  /\ blockStore = BlockIds
  /\ models = EmptyMap
  /\ typeMap = [t \in {"shape", "group", "connector"} |-> << >>]
  /\ groupLike = << >>
  /\ parentGroupMap = EmptyMap
  /\ groupChildIdsMap = EmptyMap
  /\ connByEndpoint = EmptyMap
  /\ connEndpoints = EmptyMap
  /\ isEmptyFlag = FALSE
  /\ nextId = 1
  /\ pc = "idle"
  /\ tx = NoTx
  /\ cleanups = << >>
  /\ batch = NoBatch
  /\ hist = [removed |-> {}, emptied |-> {}, del |-> NoDelete, got |-> NoGot,
             added |-> [i \in Ids |-> 0], made |-> [i \in Ids |-> 0]]
  /\ readonly = FALSE
  /\ middlewares = << >>
  /\ last = NoCall

Init == SurfaceInit /\ NoUtility

\* The state a transaction body starts from: inside an outer store.transact the
\* open transaction goes on, otherwise store.transact opens a new one.
Cur ==
  [el |-> elements, bs |-> blockStore, pm |-> parentGroupMap,
   tx |-> IF pc = "tx" THEN tx ELSE NewTx(elements)]

\* The end of store.transact(fn): the outermost call hands the transaction to the
\* observers, a nested one leaves it open.
Commit(s) ==
  /\ elements' = s.el
  /\ blockStore' = s.bs
  /\ parentGroupMap' = s.pm
  /\ IF pc = "tx"
       THEN /\ tx' = [s.tx EXCEPT !.calls = @ + 1]
            /\ UNCHANGED <<pc, cleanups>>
       ELSE /\ tx' = NoTx
            /\ cleanups' = Append(cleanups, s.tx)
            /\ pc' = "cleanup"

Live == DOMAIN models
\* addElement, deleteElement and updateElement throw on a read-only document
\* before they write anything
Callable == ~readonly /\ (pc = "idle" \/ (pc = "tx" /\ tx.calls < MaxTxOps))

\* store.transact(() => { ... }) around several calls
BeginTransact ==
  /\ pc = "idle"
  /\ ~readonly
  /\ pc' = "tx"
  /\ tx' = NewTx(elements)
  /\ last' = NoCall
  /\ UNCHANGED <<elements, blockStore, models, typeMap, groupLike, parentGroupMap,
                 groupChildIdsMap, connByEndpoint, connEndpoints, isEmptyFlag,
                 nextId, readonly, middlewares, walk, ungroup, field, coalescer, controller, cleanups, batch, hist>>

EndTransact ==
  /\ pc = "tx"
  /\ pc' = "cleanup"
  /\ cleanups' = Append(cleanups, [tx EXCEPT !.calls = 0])
  /\ tx' = NoTx
  /\ last' = NoCall
  /\ UNCHANGED <<elements, blockStore, models, typeMap, groupLike, parentGroupMap,
                 groupChildIdsMap, connByEndpoint, connEndpoints, isEmptyFlag,
                 nextId, readonly, middlewares, walk, ungroup, field, coalescer, controller, batch, hist>>

\* Types with a constructor in _elementCtorMap
RegisteredTypes == {"shape", "group", "connector"}

\* Two middlewares (ctx => { ctx.payload.props = ... }) that do not commute: one
\* gives a group without children a default child, one empties the children
MiddlewareKinds == {"defaultChild", "clearChildren"}

ApplyMiddleware(kind, props) ==
  IF kind = "defaultChild"
    THEN IF props.type = "group" /\ props.children = {}
           THEN [props EXCEPT !.children = BlockIds] ELSE props
    ELSE [props EXCEPT !.children = {}]

\* A second list order: the last registered middleware runs first
RECURSIVE RunMiddlewaresReversed(_, _, _)
RunMiddlewaresReversed(mids, props, log) ==
  IF mids = << >> THEN [props |-> props, log |-> log]
  ELSE LET m == mids[Len(mids)]
       IN RunMiddlewaresReversed(SubSeq(mids, 1, Len(mids) - 1),
            ApplyMiddleware(m, props),
            Append(log, [ev |-> "middleware", kind |-> m, props |-> props]))

\* this._middlewares.forEach(mid => mid(middlewareCtx)): the props each
\* middleware sees are logged, the props the last one leaves are returned
RECURSIVE RunMiddlewares(_, _, _)
RunMiddlewares(mids, props, log) ==
  IF mids = << >> THEN [props |-> props, log |-> log]
  ELSE RunMiddlewares(Tail(mids), ApplyMiddleware(Head(mids), props),
         Append(log, [ev |-> "middleware", kind |-> Head(mids), props |-> props]))

\* addElement from _elementModels.set on: the model is registered before the
\* storage write
AddElementEffect(rec) ==
  /\ models' = MapSet(models, nextId,
       [type |-> rec.type, childIds |-> rec.children, mounted |-> FALSE,
        source |-> rec.source, target |-> rec.target])
  /\ nextId' = nextId + 1
  /\ Commit(YElementsSet(Cur, nextId, rec))
  /\ UNCHANGED <<typeMap, groupLike, groupChildIdsMap, connByEndpoint,
                 connEndpoints, isEmptyFlag, batch, readonly, middlewares, walk, ungroup, field, coalescer, controller>>

\* addElement(props) on a writable document, with a registered type
AddElementRec(rec) ==
  /\ Callable
  /\ nextId <= MaxId
  /\ AddElementEffect(RunMiddlewares(middlewares, rec, << >>).props)
  /\ hist' = [hist EXCEPT !.del = NoDelete, !.got = NoGot, !.made[nextId] = @ + 1]
  /\ last' = NoCall

Endpoints == {{}} \cup {{e} : e \in Live}

AddShape == AddElementRec(ShapeRecord)
AddGroup == \E ch \in SUBSET (Live \cup blockStore) : AddElementRec(GroupRecord(ch))
AddConnector ==
  \E src \in Endpoints, tgt \in Endpoints : AddElementRec(ConnectorRecord(src, tgt))

\* What deleteElement(id) is about to delete, for the claims: the closure it
\* collects, the elements reachable from id through childIds, and the
\* group -> child edges among live elements at the time of the call.
RECURSIVE ReachableFrom(_, _)
ReachableFrom(S, m) ==
  LET next == S \cup UNION {IF m[g].type = "group" THEN m[g].childIds \cap DOMAIN m
                            ELSE {} : g \in S}
  IN IF next = S THEN S ELSE ReachableFrom(next, m)

DeleteRecord(id) ==
  LET acc == CollectElementsToDelete(id, EmptyAcc, models, blockStore)
      reach == ReachableFrom({id}, models)
  IN [on |-> TRUE, id |-> id, group |-> models[id].type = "group",
      ids |-> acc.ids, blocks |-> acc.blocks,
      order |-> acc.ordered, reach |-> reach,
      edges |-> {e \in reach \X reach :
                   models[e[1]].type = "group" /\ e[2] \in models[e[1]].childIds}]

\* deleteElement(id) of a live element
DeleteElement ==
  \E id \in Live :
    /\ Callable
    /\ Commit(DoDeleteElement(Cur, id, models, groupLike))
    /\ hist' = [hist EXCEPT !.del = DeleteRecord(id), !.got = NoGot]
    /\ last' = NoCall
    /\ UNCHANGED <<models, typeMap, groupLike, groupChildIdsMap, connByEndpoint,
                   connEndpoints, isEmptyFlag, nextId, readonly, middlewares, walk, ungroup, field, coalescer, controller, batch>>

StoredGroups == {g \in Live \cap DOMAIN elements : models[g].type = "group"}
StoredConnectors == {c \in Live \cap DOMAIN elements : models[c].type = "connector"}

\* getGroup(id), called between transactions
GetGroupCall ==
  \E x \in AllIds :
    /\ pc = "idle"
    /\ LET r == GetGroup(parentGroupMap, groupLike, ChildIdsOf(models, groupLike),
                         Live \cup blockStore, x)
       IN /\ parentGroupMap' = r.pm
          /\ hist' = [hist EXCEPT !.del = NoDelete,
                                  !.got = [on |-> TRUE, id |-> x, res |-> r.group]]
    /\ last' = NoCall
    /\ UNCHANGED <<elements, blockStore, models, typeMap, groupLike,
                   groupChildIdsMap, connByEndpoint, connEndpoints, isEmptyFlag,
                   nextId, readonly, middlewares, walk, ungroup, field, coalescer, controller, pc, tx, cleanups, batch>>

\* store.readonly = value, between transactions
SetReadonly ==
  /\ pc = "idle"
  /\ readonly' = ~readonly
  /\ hist' = [hist EXCEPT !.del = NoDelete, !.got = NoGot]
  /\ last' = NoCall
  /\ UNCHANGED <<middlewares, walk, ungroup, field, coalescer, controller, elements, blockStore, models, typeMap, groupLike,
                 parentGroupMap,
                 groupChildIdsMap, connByEndpoint, connEndpoints, isEmptyFlag,
                 nextId, pc, tx, cleanups, batch>>

\* An update of another client is applied (local = false): a child is deleted
\* from the children map of a stored group, whether or not the document is
\* read-only here
RemoteRemoveChild ==
  \E g \in {i \in DOMAIN elements : elements[i].type = "group"} :
    \E c \in elements[g].children :
      /\ pc = "idle"
      /\ Commit(GroupRemoveChild(Cur, g, c))
      /\ hist' = [hist EXCEPT !.del = NoDelete, !.got = NoGot]
      /\ last' = NoCall
      /\ UNCHANGED <<models, typeMap, groupLike, groupChildIdsMap, connByEndpoint,
                     connEndpoints, isEmptyFlag, nextId, readonly, middlewares, walk, ungroup, field, coalescer, controller, batch>>

\* group.removeChild(element)
RemoveChild ==
  \E g \in StoredGroups : \E c \in elements[g].children :
    /\ Callable
    /\ Commit(GroupRemoveChild(Cur, g, c))
    /\ hist' = [hist EXCEPT !.del = NoDelete, !.got = NoGot]
    /\ last' = NoCall
    /\ UNCHANGED <<models, typeMap, groupLike, groupChildIdsMap, connByEndpoint,
                   connEndpoints, isEmptyFlag, nextId, readonly, middlewares, walk, ungroup, field, coalescer, controller, batch>>

\* group.addChild(element): nothing is written when canSafeAddToContainer
\* refuses (the element is the group itself or a group the group descends
\* from); a parent chain that runs in a circle keeps the call from returning
AddChild ==
  \E g \in StoredGroups : \E c \in (Live \cup blockStore) \ (elements[g].children \cup {g}) :
    LET asks == c \in Live /\ models[c].type = "group"
        w == IF asks
               THEN HasDescendantElementImpl(Cur.pm, groupLike,
                      ChildIdsOf(models, groupLike), Live \cup blockStore, c, g, {})
               ELSE [found |-> FALSE, hangs |-> FALSE, pm |-> Cur.pm]
    IN /\ Callable
       /\ ~w.hangs
       /\ IF w.found
            THEN /\ parentGroupMap' = w.pm
                 /\ UNCHANGED <<elements, blockStore, pc, tx, cleanups>>
            ELSE Commit(GroupAddChild([Cur EXCEPT !.pm = w.pm], g, c))
       /\ hist' = [hist EXCEPT !.del = NoDelete, !.got = NoGot]
       /\ last' = NoCall
       /\ UNCHANGED <<models, typeMap, groupLike, groupChildIdsMap, connByEndpoint,
                      connEndpoints, isEmptyFlag, nextId, readonly, middlewares, walk, ungroup, field, coalescer, controller, batch>>

\* An update of another client adds a child to the children map of a stored
\* group; nothing keeps the merged maps from forming a cycle
RemoteAddChild ==
  \E g \in {i \in DOMAIN elements : elements[i].type = "group"} :
    \E c \in (DOMAIN elements \cup blockStore) \ elements[g].children :
      /\ pc = "idle"
      /\ Commit(GroupAddChild(Cur, g, c))
      /\ hist' = [hist EXCEPT !.del = NoDelete, !.got = NoGot]
      /\ last' = NoCall
      /\ UNCHANGED <<models, typeMap, groupLike, groupChildIdsMap, connByEndpoint,
                     connEndpoints, isEmptyFlag, nextId, readonly, middlewares, walk, ungroup, field, coalescer, controller, batch>>

\* connector.source = v, connector.target = v, or another field of the connector
UpdateConnector ==
  \E c \in StoredConnectors :
    /\ Callable
    /\ \/ \E v \in Endpoints :
            /\ models' = [models EXCEPT ![c].source = v]
            /\ Commit(ElementSetSource(Cur, c, v))
       \/ \E v \in Endpoints :
            /\ models' = [models EXCEPT ![c].target = v]
            /\ Commit(ElementSetTarget(Cur, c, v))
       \/ /\ UNCHANGED models
          /\ Commit(ElementSetOther(Cur, c))
    /\ hist' = [hist EXCEPT !.del = NoDelete, !.got = NoGot]
    /\ last' = NoCall
    /\ UNCHANGED <<typeMap, groupLike, groupChildIdsMap, connByEndpoint,
                   connEndpoints, isEmptyFlag, nextId, readonly, middlewares, walk, ungroup, field, coalescer, controller, batch>>

----------------------------------------------------------------------------
\* Observer calls: the cleanup of the transactions, the oldest first

HeadTx == Head(cleanups)
HeadEntry == Head(HeadTx.changed)
PopEntry(cs) == [cs EXCEPT ![1].changed = Tail(@)]

InElementsObserver ==
  /\ pc = "cleanup"
  /\ HeadTx.changed # << >>
  /\ HeadEntry.kind = "elements"

\* addToType(type, model)
AddToType(id, model) ==
  /\ typeMap' = [typeMap EXCEPT ![model.type] = SeqAddUnique(@, id)]
  /\ IF model.type = "group"
       THEN LET idx == SyncGroupChildrenIndex(
                         [pm |-> parentGroupMap, cm |-> groupChildIdsMap],
                         id, model.childIds, {})
            IN /\ groupLike' = SeqAddUnique(groupLike, id)
               /\ parentGroupMap' = idx.pm
               /\ groupChildIdsMap' = idx.cm
       ELSE UNCHANGED <<groupLike, parentGroupMap, groupChildIdsMap>>

\* removeFromType(type, model)
RemoveFromType(id, model) ==
  /\ typeMap' = [typeMap EXCEPT ![model.type] = SeqRemove(@, id)]
  /\ IF model.type = "group"
       THEN LET idx == RemoveGroupFromChildrenIndex(
                         [pm |-> MapDelete(parentGroupMap, id),
                          cm |-> groupChildIdsMap], id)
            IN /\ groupLike' = SeqRemove(groupLike, id)
               /\ parentGroupMap' = idx.pm
               /\ groupChildIdsMap' = idx.cm
       ELSE /\ parentGroupMap' = MapDelete(parentGroupMap, id)
            /\ UNCHANGED <<groupLike, groupChildIdsMap>>

\* _createElementFromYMap(type, id, yMap, {skipFieldInit: true}): the fields are
\* read from the Y.Map, the childIds cache of a group is filled at mount()
ModelFromYMap(rec) ==
  [type |-> rec.type, childIds |-> {}, mounted |-> FALSE,
   source |-> rec.source, target |-> rec.target]

\* onElementsMapChange, first loop: keysChanged.forEach(id => ...), one key
ProcessKey ==
  /\ InElementsObserver
  /\ LET keys == IF batch.active THEN batch.keys ELSE HeadEntry.keys
         all == IF batch.active THEN batch.all ELSE HeadEntry.keys
         id == Head(keys)
         action == YAction(HeadTx, id)
         b1 == [batch EXCEPT !.active = TRUE, !.keys = Tail(keys), !.all = all]
     IN /\ keys # << >>
        /\ IF action = "add" /\ id \in DOMAIN elements
             THEN LET model == IF id \in DOMAIN models THEN models[id]
                               ELSE ModelFromYMap(elements[id])
                  IN /\ models' = MapSet(models, id, model)
                     /\ AddToType(id, model)
                     /\ batch' = [b1 EXCEPT !.added = Append(@, id)]
                     /\ hist' = IF id \in DOMAIN models THEN hist
                                ELSE [hist EXCEPT !.made[id] = MinOf({@ + 1, 2})]
           ELSE IF action = "delete" /\ id \in DOMAIN models
             THEN /\ RemoveFromType(id, models[id])
                  /\ models' = MapDelete(models, id)
                  /\ batch' = [b1 EXCEPT !.removed =
                                 Append(@, [id |-> id, type |-> models[id].type])]
                  /\ UNCHANGED hist
           ELSE /\ batch' = b1
                /\ UNCHANGED <<models, typeMap, groupLike, parentGroupMap,
                               groupChildIdsMap, hist>>
  /\ last' = NoCall
  /\ UNCHANGED <<elements, blockStore, connByEndpoint, connEndpoints, isEmptyFlag,
                 nextId, readonly, middlewares, walk, ungroup, field, coalescer, controller, pc, tx, cleanups>>

\* mount(): initializeObservers runs each observer once, which for a group reads
\* its childIds from the children map without emitting (the model is not mounted
\* yet), then the model is mounted
Mount(m, el, id) ==
  IF id \notin DOMAIN m THEN m
  ELSE [m EXCEPT ![id].mounted = TRUE,
                 ![id].childIds = IF m[id].type = "group" /\ id \in DOMAIN el
                                    THEN el[id].children ELSE @]

\* updateIsEmpty of _watchChildrenChange
UpdateIsEmpty(m, bs) == (DOMAIN m = {}) /\ (bs = {})

\* A second loop that starts while keys of the first are still to be applied
EmitBeforeApplied == InElementsObserver /\ batch.active

\* The second loop may run once the first is through
EmitReady == InElementsObserver /\ batch.active /\ batch.keys = << >>

\* addedElements.forEach: mount(), elementAdded.next({id}); the subscribers are
\* updateIsEmpty and the connector index, in this order
EmitAdded ==
  /\ EmitReady
  /\ batch.added # << >>
  /\ LET id == Head(batch.added)
         cx == [by |-> connByEndpoint, ep |-> connEndpoints]
         cx1 == IF id \in DOMAIN models /\ models[id].type = "connector"
                  THEN SetConnectorEndpoints(cx, id, models[id].source,
                                             models[id].target)
                  ELSE cx
     IN /\ models' = Mount(models, elements, id)
        /\ isEmptyFlag' = UpdateIsEmpty(models, blockStore)
        /\ connByEndpoint' = cx1.by
        /\ connEndpoints' = cx1.ep
        /\ batch' = [batch EXCEPT !.added = Tail(@), !.sent = 1]
        /\ hist' = [hist EXCEPT !.added[id] = MinOf({@ + 1, 2})]
  /\ last' = NoCall
  /\ UNCHANGED <<elements, blockStore, typeMap, groupLike, parentGroupMap,
                 groupChildIdsMap, nextId, readonly, middlewares, walk, ungroup, field, coalescer, controller, pc, tx, cleanups>>

\* deletedElements.forEach: unmount(), elementRemoved.next({id, type, model})
EmitRemoved ==
  /\ EmitReady
  /\ batch.added = << >>
  /\ batch.removed # << >>
  /\ LET ev == Head(batch.removed)
         cx == [by |-> connByEndpoint, ep |-> connEndpoints]
         cx1 == IF ev.type = "connector"
                  THEN RemoveConnectorFromIndex(cx, ev.id) ELSE cx
     IN /\ isEmptyFlag' = UpdateIsEmpty(models, blockStore)
        /\ connByEndpoint' = cx1.by
        /\ connEndpoints' = cx1.ep
        /\ batch' = [batch EXCEPT !.removed = Tail(@), !.sent = 1]
        /\ hist' = [hist EXCEPT !.removed = @ \cup {ev.id}]
  /\ last' = NoCall
  /\ UNCHANGED <<elements, blockStore, models, typeMap, groupLike, parentGroupMap,
                 groupChildIdsMap, nextId, readonly, middlewares, walk, ungroup, field, coalescer, controller, pc, tx, cleanups>>

\* onElementsMapChange returns
FinishBatch ==
  /\ EmitReady
  /\ batch.added = << >>
  /\ batch.removed = << >>
  /\ batch' = NoBatch
  /\ cleanups' = PopEntry(cleanups)
  /\ last' = NoCall
  /\ UNCHANGED <<elements, blockStore, models, typeMap, groupLike, parentGroupMap,
                 groupChildIdsMap, connByEndpoint, connEndpoints, isEmptyFlag,
                 nextId, readonly, middlewares, walk, ungroup, field, coalescer, controller, pc, tx, hist>>

\* The observer of an element's Y.Map (syncElementFromY) reports the changed
\* fields through _emitElementUpdated; the subscribers of elementUpdated are the
\* group watcher and the connector index, in this order.
\* It is called when the Y.Map is still in storage and the model is mounted.
ObserverCalled(id) ==
  /\ id \in DOMAIN elements
  /\ id \in DOMAIN models
  /\ models[id].mounted

ObserveProps ==
  /\ pc = "cleanup"
  /\ HeadTx.changed # << >>
  /\ HeadEntry.kind = "props"
  /\ LET id == HeadEntry.id
         cx == [by |-> connByEndpoint, ep |-> connEndpoints]
         resync == /\ ObserverCalled(id)
                   /\ HeadEntry.props \cap {"source", "target"} # {}
                   /\ models[id].type = "connector"
         cx1 == IF resync
                  THEN SetConnectorEndpoints(cx, id, models[id].source,
                                             models[id].target)
                  ELSE cx
     IN /\ connByEndpoint' = cx1.by
        /\ connEndpoints' = cx1.ep
        /\ last' = IF resync
                     THEN [NoCall EXCEPT !.op = "setConnectorEndpoints", !.id = id]
                     ELSE NoCall
  /\ cleanups' = PopEntry(cleanups)
  /\ UNCHANGED <<elements, blockStore, models, typeMap, groupLike, parentGroupMap,
                 groupChildIdsMap, isEmptyFlag, nextId, readonly, middlewares, walk, ungroup, field, coalescer, controller, pc, tx, batch, hist>>

\* The observer of a group's children map: setChildIds(keys), then
\* _emitElementUpdated syncs the group index and emits elementUpdated;
\* _watchGroupRelationChange deletes the group when its childIds are empty;
\* on a read-only document its deleteElement call throws before it deletes.
ObserveChildren ==
  /\ pc = "cleanup"
  /\ HeadTx.changed # << >>
  /\ HeadEntry.kind = "children"
  /\ LET id == HeadEntry.id
     IN IF ObserverCalled(id)
          THEN LET old == models[id].childIds
                   new == elements[id].children
                   m1 == [models EXCEPT ![id].childIds = new]
                   idx == SyncGroupChildrenIndex(
                            [pm |-> parentGroupMap, cm |-> groupChildIdsMap],
                            id, new, old)
                   s0 == [el |-> elements, bs |-> blockStore, pm |-> idx.pm,
                          tx |-> NewTx(elements)]
                   deletes == new = {} /\ ~readonly
                   s1 == IF deletes THEN DoDeleteElement(s0, id, m1, groupLike)
                         ELSE s0
               IN /\ models' = m1
                  /\ groupChildIdsMap' = idx.cm
                  /\ parentGroupMap' = s1.pm
                  /\ elements' = s1.el
                  /\ blockStore' = s1.bs
                  /\ cleanups' = IF deletes THEN Append(PopEntry(cleanups), s1.tx)
                                 ELSE PopEntry(cleanups)
                  /\ hist' = IF new = {} THEN [hist EXCEPT !.emptied = @ \cup {id}]
                             ELSE hist
          ELSE /\ cleanups' = PopEntry(cleanups)
               /\ UNCHANGED <<elements, blockStore, models, parentGroupMap,
                              groupChildIdsMap, hist>>
  /\ last' = IF ObserverCalled(HeadEntry.id) /\ elements[HeadEntry.id].children = {}
               THEN [NoCall EXCEPT !.op = "elementUpdated", !.id = HeadEntry.id,
                                   !.threw = IF readonly THEN "readonly" ELSE "none"]
               ELSE NoCall
  /\ UNCHANGED <<typeMap, groupLike, connByEndpoint, connEndpoints, isEmptyFlag,
                 nextId, readonly, middlewares, walk, ungroup, field, coalescer, controller, pc, tx, batch>>

\* store.slots.blockUpdated {type: 'delete'} of a block that is no group.
\* Whether store.getBlock still resolves the block while the event is delivered
\* is the store's affair: both are allowed for.
BlockDeleted ==
  /\ pc = "cleanup"
  /\ HeadTx.changed = << >>
  /\ HeadTx.blocks # << >>
  /\ \E resolves \in BOOLEAN :
       LET b == Head(HeadTx.blocks)
           gg == GetGroup(parentGroupMap, groupLike, ChildIdsOf(models, groupLike),
                          (DOMAIN models) \cup blockStore
                            \cup (IF resolves THEN {b} ELSE {}), b)
           s0 == [el |-> elements, bs |-> blockStore, pm |-> gg.pm,
                  tx |-> NewTx(elements)]
           s1 == IF gg.group # {} THEN GroupRemoveChild(s0, MinOf(gg.group), b)
                 ELSE s0
           rest == [cleanups EXCEPT ![1].blocks = Tail(@)]
       IN /\ elements' = s1.el
          /\ parentGroupMap' = MapDelete(s1.pm, b)
          /\ cleanups' = IF gg.group # {} THEN Append(rest, s1.tx) ELSE rest
          /\ isEmptyFlag' = UpdateIsEmpty(models, blockStore)
  /\ last' = NoCall
  /\ UNCHANGED <<blockStore, models, typeMap, groupLike, groupChildIdsMap,
                 connByEndpoint, connEndpoints, nextId, readonly, middlewares, walk, ungroup, field, coalescer, controller, pc, tx, batch,
                 hist>>

\* All observers of the oldest transaction are through
FinishTx ==
  /\ pc = "cleanup"
  /\ HeadTx.changed = << >>
  /\ HeadTx.blocks = << >>
  /\ cleanups' = Tail(cleanups)
  /\ pc' = IF Tail(cleanups) = << >> THEN "idle" ELSE "cleanup"
  /\ last' = NoCall
  /\ UNCHANGED <<elements, blockStore, models, typeMap, groupLike, parentGroupMap,
                 groupChildIdsMap, connByEndpoint, connEndpoints, isEmptyFlag,
                 nextId, readonly, middlewares, walk, ungroup, field, coalescer, controller, tx, batch, hist>>

Next ==
  \/ BeginTransact
  \/ EndTransact
  \/ AddShape
  \/ AddGroup
  \/ AddConnector
  \/ DeleteElement
  \/ RemoveChild
  \/ AddChild
  \/ RemoteAddChild
  \/ UpdateConnector
  \/ GetGroupCall
  \/ SetReadonly
  \/ RemoteRemoveChild
  \/ ProcessKey
  \/ EmitAdded
  \/ EmitRemoved
  \/ FinishBatch
  \/ ObserveProps
  \/ ObserveChildren
  \/ BlockDeleted
  \/ FinishTx

Spec == Init /\ [][Next]_vars

Settled == pc = "idle"

\* The observers of a committed transaction run synchronously to the end
CleanupStep ==
  \/ ProcessKey
  \/ EmitAdded
  \/ EmitRemoved
  \/ FinishBatch
  \/ ObserveProps
  \/ ObserveChildren
  \/ BlockDeleted
  \/ FinishTx

SpecFair == Spec /\ WF_vars(CleanupStep)

----------------------------------------------------------------------------
\* The connector endpoint index read by its users: getConnectors(id) called
\* between transactions, or by a subscriber of elementAdded / elementRemoved
\* while the events of a transaction are being emitted.

GetConnectorsCall ==
  \E id \in AllIds :
    /\ pc = "idle" \/ (EmitReady /\ batch.sent = 1)
    /\ LET r == GetConnectors([by |-> connByEndpoint, ep |-> connEndpoints],
                              models, id)
       IN /\ connByEndpoint' = r.cx.by
          /\ connEndpoints' = r.cx.ep
          /\ last' = [NoCall EXCEPT !.op = "getConnectors", !.id = id,
                                    !.res = r.res, !.log = r.stale]
    /\ UNCHANGED <<elements, blockStore, models, typeMap, groupLike,
                   parentGroupMap, groupChildIdsMap, isEmptyFlag, nextId,
                   readonly, middlewares, walk, ungroup, field, coalescer, controller, pc, tx, cleanups, batch, hist>>

\* Shapes and connectors only: no group is created, so the observers of
\* group children and of block deletion have nothing to do
ConnNext ==
  \/ BeginTransact
  \/ EndTransact
  \/ AddShape
  \/ AddConnector
  \/ UpdateConnector
  \/ DeleteElement
  \/ GetConnectorsCall
  \/ ProcessKey
  \/ EmitAdded
  \/ EmitRemoved
  \/ FinishBatch
  \/ ObserveProps
  \/ FinishTx

SpecConn == Init /\ [][ConnNext]_vars

----------------------------------------------------------------------------
----------------------------------------------------------------------------
\* The group index on its own: a surface constructed over a document that
\* already stores groups, whose index methods are then called directly, as
\* the "surface group index cache" tests do.  Groups and children are
\* elements (Ids).

\* _rebuildGroupChildrenIndex(): both maps cleared, every known group synced
RECURSIVE RebuildFrom(_, _, _)
RebuildFrom(idx, gl, cof) ==
  IF gl = << >> THEN idx
  ELSE RebuildFrom(SyncGroupChildrenIndex(idx, Head(gl), cof[Head(gl)], {}),
                   Tail(gl), cof)

RebuildGroupChildrenIndex(gl, cof) ==
  RebuildFrom([pm |-> EmptyMap, cm |-> EmptyMap], gl, cof)

GroupOrders == {<< >>} \cup {<<g>> : g \in Ids}
               \cup {<<g, h>> : <<g, h>> \in {p \in Ids \X Ids : p[1] # p[2]}}

NoIndexOp == [op |-> "none", g |-> 0, next |-> {}, was |-> {}, id |-> 0, res |-> {},
              got |-> NoGot, chain |-> << >>, cut |-> FALSE]

\* _init() over stored elements: models created and mounted, groups registered
\* in storage order, the index rebuilt
IndexInit ==
  \E gl \in GroupOrders :
    \E cof \in [SeqSet(gl) -> SUBSET Ids] :
      \E shapes \in SUBSET (Ids \ SeqSet(gl)) :
        /\ elements = [i \in SeqSet(gl) \cup shapes |->
                         IF i \in shapes THEN ShapeRecord ELSE GroupRecord(cof[i])]
        /\ blockStore = BlockIds
        /\ models = [i \in SeqSet(gl) \cup shapes |->
                       [type |-> elements[i].type, childIds |-> elements[i].children,
                        mounted |-> TRUE, source |-> {}, target |-> {}]]
        /\ typeMap = [t \in {"shape", "group", "connector"} |->
                        IF t = "group" THEN gl
                        ELSE IF t = "shape" THEN SetToSeq(shapes) ELSE << >>]
        /\ groupLike = gl
        /\ parentGroupMap = RebuildGroupChildrenIndex(gl, cof).pm
        /\ groupChildIdsMap = RebuildGroupChildrenIndex(gl, cof).cm
        /\ connByEndpoint = EmptyMap
        /\ connEndpoints = EmptyMap
        /\ isEmptyFlag = UpdateIsEmpty(models, blockStore)
        /\ nextId = MaxId + 1
        /\ pc = "idle"
        /\ tx = NoTx
        /\ cleanups = << >>
        /\ batch = NoBatch
        /\ hist = NoIndexOp
        /\ readonly = FALSE
        /\ middlewares = << >>
        /\ last = NoCall
        /\ NoUtility

IndexUnchanged ==
  UNCHANGED <<elements, blockStore, models, typeMap, groupLike, connByEndpoint,
              connEndpoints, isEmptyFlag, nextId, readonly, pc, tx, cleanups, batch,
              middlewares, walk, ungroup, field, coalescer, controller, last>>

SnapshotOf(g) == IF g \in DOMAIN groupChildIdsMap THEN groupChildIdsMap[g] ELSE {}

\* _syncGroupChildrenIndex(groupId, nextChildIds)
IndexSync ==
  \E g \in Ids, next \in SUBSET Ids :
    LET idx == SyncGroupChildrenIndexLookup(
                 [pm |-> parentGroupMap, cm |-> groupChildIdsMap], g, next)
    IN /\ parentGroupMap' = idx.pm
       /\ groupChildIdsMap' = idx.cm
       /\ hist' = [NoIndexOp EXCEPT !.op = "sync", !.g = g, !.next = next,
                                    !.was = SnapshotOf(g)]
       /\ IndexUnchanged

\* _syncGroupChildrenIndex(groupId, nextChildIds, previousChildIds)
IndexSyncPrevious ==
  \E g \in Ids, next \in SUBSET Ids, prev \in SUBSET Ids :
    LET idx == SyncGroupChildrenIndex(
                 [pm |-> parentGroupMap, cm |-> groupChildIdsMap], g, next, prev)
    IN /\ parentGroupMap' = idx.pm
       /\ groupChildIdsMap' = idx.cm
       /\ hist' = [NoIndexOp EXCEPT !.op = "syncPrevious", !.g = g, !.next = next,
                                    !.was = prev]
       /\ IndexUnchanged

\* _removeGroupFromChildrenIndex(groupId)
IndexRemoveGroup ==
  \E g \in Ids :
    LET idx == RemoveGroupFromChildrenIndex(
                 [pm |-> parentGroupMap, cm |-> groupChildIdsMap], g)
    IN /\ parentGroupMap' = idx.pm
       /\ groupChildIdsMap' = idx.cm
       /\ hist' = [NoIndexOp EXCEPT !.op = "remove", !.g = g]
       /\ IndexUnchanged

\* getGroup(id)
IndexGetGroup ==
  \E x \in Ids :
    LET r == GetGroup(parentGroupMap, groupLike, ChildIdsOf(models, groupLike),
                      Live \cup blockStore, x)
    IN /\ parentGroupMap' = r.pm
       /\ hist' = [NoIndexOp EXCEPT !.op = "getGroup", !.id = x, !.res = r.group,
                                    !.was = IF x \in DOMAIN parentGroupMap
                                              THEN {parentGroupMap[x]} ELSE {},
                                    !.got = [on |-> TRUE, id |-> x, res |-> r.group]]
       /\ UNCHANGED groupChildIdsMap
       /\ IndexUnchanged

IndexGetGroups ==
  \E x \in Ids :
    LET r == GetGroups(parentGroupMap, groupLike, ChildIdsOf(models, groupLike),
                       Live \cup blockStore, x)
    IN /\ parentGroupMap' = r.pm
       /\ hist' = [NoIndexOp EXCEPT !.op = "getGroups", !.id = x,
                                    !.chain = r.groups, !.cut = r.cut]
       /\ UNCHANGED groupChildIdsMap
       /\ IndexUnchanged

IndexNext ==
  \/ IndexSync
  \/ IndexSyncPrevious
  \/ IndexRemoveGroup
  \/ IndexGetGroup
  \/ IndexGetGroups

SpecIndex == IndexInit /\ [][IndexNext]_vars

----------------------------------------------------------------------------
\* The public mutators with their error paths, called between transactions on a
\* document that is writable or read-only, with and without middlewares.

UnknownRecord == [type |-> "unknown", children |-> {}, source |-> {}, target |-> {}]

\* props a caller passes to addElement
CallProps ==
  {ShapeRecord, UnknownRecord} \cup {GroupRecord(ch) : ch \in SUBSET (Live \cup blockStore)}

MiddlewareLists ==
  {<< >>} \cup {<<a>> : a \in MiddlewareKinds}
         \cup {<<a, b>> : <<a, b>> \in {p \in MiddlewareKinds \X MiddlewareKinds : p[1] # p[2]}}

LogEntry(ev, props) == [ev |-> ev, kind |-> "", props |-> props]

\* addElement that goes on when the document is read-only
AddElementIgnoringReadonly(ro, mids, rec) ==
  LET run == RunMiddlewares(mids, rec, << >>)
      log == Append(run.log, LogEntry("id", run.props))
  IN IF run.props.type \notin RegisteredTypes
       THEN [threw |-> "invalidType", props |-> run.props, log |-> log]
       ELSE [threw |-> "none", props |-> run.props,
             log |-> Append(log, LogEntry("write", run.props))]

\* addElement that constructs a shape when the type has no constructor
AddElementAnyType(ro, mids, rec) ==
  IF ro THEN [threw |-> "readonly", props |-> rec, log |-> << >>]
  ELSE LET run == RunMiddlewares(mids, rec, << >>)
           props == IF run.props.type \in RegisteredTypes THEN run.props
                    ELSE [run.props EXCEPT !.type = "shape"]
       IN [threw |-> "none", props |-> props,
           log |-> run.log \o <<LogEntry("id", props), LogEntry("write", props)>>]

\* addElement up to _createElementFromYMap: the read-only check, the
\* middlewares, nanoid(), the constructor lookup, then the storage write
AddElementOutcome(ro, mids, rec) ==
  IF ro THEN [threw |-> "readonly", props |-> rec, log |-> << >>]
  ELSE LET run == RunMiddlewares(mids, rec, << >>)
           log == Append(run.log, LogEntry("id", run.props))
       IN IF run.props.type \notin RegisteredTypes
            THEN [threw |-> "invalidType", props |-> run.props, log |-> log]
            ELSE [threw |-> "none", props |-> run.props,
                  log |-> Append(log, LogEntry("write", run.props))]

\* updateElement that writes without looking at the document or the id
UpdateElementUnchecked(ro, live, id) == "update"

\* updateElement: the read-only check, then the lookup of the element
UpdateElementOutcome(ro, live, id) ==
  IF ro THEN "readonly" ELSE IF id \notin live THEN "notFound" ELSE "update"

\* deleteElement that treats a missing id as updateElement does
DeleteElementStrict(ro, live, id) ==
  IF ro THEN "readonly" ELSE IF id \notin live THEN "notFound" ELSE "delete"

\* deleteElement: the read-only check, then hasElementById
DeleteElementOutcome(ro, live, id) ==
  IF ro THEN "readonly" ELSE IF id \notin live THEN "noop" ELSE "delete"

Threw(out) == IF out \in {"noop", "delete", "update"} THEN "none" ELSE out

\* A call that returns or throws before it touches the surface
CallLeavesSurface ==
  UNCHANGED <<elements, blockStore, models, typeMap, groupLike, parentGroupMap,
              groupChildIdsMap, connByEndpoint, connEndpoints, isEmptyFlag,
              nextId, pc, tx, cleanups, batch, readonly, middlewares, walk, ungroup, field, coalescer, controller>>

\* applyMiddlewares(middlewares)
ApplyMiddlewaresCall ==
  \E mids \in MiddlewareLists :
    /\ pc = "idle"
    /\ middlewares' = mids
    /\ hist' = [hist EXCEPT !.del = NoDelete, !.got = NoGot]
    /\ last' = NoCall
    /\ UNCHANGED <<elements, blockStore, models, typeMap, groupLike, parentGroupMap,
                   groupChildIdsMap, connByEndpoint, connEndpoints, isEmptyFlag,
                   nextId, pc, tx, cleanups, batch, readonly, walk, ungroup, field, coalescer, controller>>

\* addElement(props)
AddElementCall ==
  \E rec \in CallProps :
    LET out == AddElementOutcome(readonly, middlewares, rec)
    IN /\ pc = "idle"
       /\ IF out.threw = "none"
            THEN /\ nextId <= MaxId
                 /\ AddElementEffect(out.props)
                 /\ hist' = [hist EXCEPT !.del = NoDelete, !.got = NoGot,
                                         !.made[nextId] = @ + 1]
            ELSE /\ CallLeavesSurface
                 /\ hist' = [hist EXCEPT !.del = NoDelete, !.got = NoGot]
       /\ last' = [NoCall EXCEPT !.op = "addElement", !.id = nextId,
                                 !.threw = out.threw, !.log = out.log,
                                 !.res = {rec}]

\* updateElement(id, props)
UpdateElementCall ==
  \E id \in Ids :
    LET out == UpdateElementOutcome(readonly, Live, id)
    IN /\ pc = "idle"
       /\ IF out = "update"
            THEN /\ Commit(ElementSetOther(Cur, id))
                 /\ UNCHANGED <<models, typeMap, groupLike, groupChildIdsMap,
                                connByEndpoint, connEndpoints, isEmptyFlag, nextId,
                                batch, readonly, middlewares, walk, ungroup, field, coalescer, controller>>
            ELSE CallLeavesSurface
       /\ hist' = [hist EXCEPT !.del = NoDelete, !.got = NoGot]
       /\ last' = [NoCall EXCEPT !.op = "updateElement", !.id = id,
                                 !.threw = Threw(out)]

\* deleteElement(id)
DeleteElementCall ==
  \E id \in Ids :
    LET out == DeleteElementOutcome(readonly, Live, id)
    IN /\ pc = "idle"
       /\ IF out = "delete"
            THEN /\ Commit(DoDeleteElement(Cur, id, models, groupLike))
                 /\ hist' = [hist EXCEPT !.del = DeleteRecord(id), !.got = NoGot]
                 /\ UNCHANGED <<models, typeMap, groupLike, groupChildIdsMap,
                                connByEndpoint, connEndpoints, isEmptyFlag, nextId,
                                batch, readonly, middlewares, walk, ungroup, field, coalescer, controller>>
            ELSE /\ CallLeavesSurface
                 /\ hist' = [hist EXCEPT !.del = NoDelete, !.got = NoGot]
       /\ last' = [NoCall EXCEPT !.op = "deleteElement", !.id = id,
                                 !.threw = Threw(out)]

ApiNext ==
  \/ SetReadonly
  \/ ApplyMiddlewaresCall
  \/ AddElementCall
  \/ UpdateElementCall
  \/ DeleteElementCall
  \/ CleanupStep

SpecApi == Init /\ [][ApiNext]_vars

----------------------------------------------------------------------------
\* The tree utilities of utils/tree.ts over a group graph. kids[g] are the
\* childElements of g (empty for an element that is no group); element.group
\* is the first group that has the element as a child, 0 (null) when none has.

MaxNodes == 3
MaxInput == 3
Nodes == 1..MaxNodes
GroupGraphs == [Nodes -> SUBSET Nodes]
InputLists == UNION {[1..n -> Nodes] : n \in 0..MaxInput}

\* element.group
GroupOf(kids, e) ==
  LET gs == {g \in Nodes : e \in kids[g]}
  IN IF gs = {} THEN 0 ELSE MinOf(gs)

\* element.childElements
ChildElements(kids, g) == SetToSeq(kids[g])

\* [...new Set(elements)]: the first occurrence of each element, in order
RECURSIVE Unique(_)
Unique(xs) ==
  IF xs = << >> THEN << >>
  ELSE LET init == Unique(SubSeq(xs, 1, Len(xs) - 1))
           x == xs[Len(xs)]
       IN IF InSeq(x, init) THEN init ELSE Append(init, x)

\* innerTraverse over the elements els in turn, preCallback pushing to results:
\* st is [visited, results]
RECURSIVE InnerTraverse(_, _, _)
InnerTraverse(kids, els, st) ==
  IF els = << >> THEN st
  ELSE LET el == Head(els)
           st1 == IF el \in st.visited THEN st
                  ELSE InnerTraverse(kids, ChildElements(kids, el),
                         [visited |-> st.visited \cup {el},
                          results |-> Append(st.results, el)])
       IN InnerTraverse(kids, Tail(els), st1)

\* traverse(child, element => results.push(element)): a new visited set
Traverse(kids, child, results) ==
  InnerTraverse(kids, <<child>>, [visited |-> {}, results |-> results]).results

RECURSIVE TraverseEach(_, _, _)
TraverseEach(kids, children, results) ==
  IF children = << >> THEN results
  ELSE TraverseEach(kids, Tail(children), Traverse(kids, Head(children), results))

\* descendantElementsImpl(container)
DescendantElementsImpl(kids, container) ==
  TraverseEach(kids, ChildElements(kids, container), << >>)

\* A tree utility reads the graph and writes nothing but its own locals
TreeFrame ==
  UNCHANGED <<elements, blockStore, models, typeMap, groupLike, parentGroupMap,
              groupChildIdsMap, connByEndpoint, connEndpoints, isEmptyFlag, nextId,
              pc, tx, cleanups, batch, hist, readonly, middlewares, last,
              ungroup, field, coalescer, controller>>

\* descendantElementsImpl(container), called and returned
DescendantsCall ==
  \E c \in Nodes :
    /\ walk.op = "none"
    /\ walk' = [op |-> "descendantElements", kids |-> walk.kids, container |-> c,
                res |-> DescendantElementsImpl(walk.kids, c), done |-> TRUE]
  /\ TreeFrame

\* The state getTopElements(xs) starts its loop in: the element at position
\* pos of the unique elements is looked at, at is the ancestor reached, turn
\* the parity of the loop turns taken (a turn is a step of the program even
\* when a group is its own group); given and first keep the list first
\* passed and the list first returned
TopStart(kids, xs, given, first, again) ==
  LET u == Unique(xs)
  IN [op |-> "getTopElements", kids |-> kids, input |-> xs, unique |-> u,
      pos |-> 1, at |-> IF u = << >> THEN 0 ELSE GroupOf(kids, u[1]),
      top |-> << >>, done |-> u = << >>, given |-> given, first |-> first,
      again |-> again, turn |-> 0]

\* getTopElements(elements) is called
TopCall ==
  \E xs \in InputLists :
    /\ walk.op = "none"
    /\ walk' = TopStart(walk.kids, xs, xs, << >>, FALSE)
  /\ TreeFrame

\* getTopElements is called on the list a getTopElements call has returned
TopCallAgain ==
  /\ walk.op = "getTopElements"
  /\ walk.done
  /\ ~walk.again
  /\ walk' = TopStart(walk.kids, walk.top, walk.given, walk.top, TRUE)
  /\ TreeFrame

\* A walk that looks at the parent only
TopWalkParentOnly ==
  /\ walk.op = "getTopElements"
  /\ ~walk.done
  /\ walk.at # 0
  /\ ~InSeq(walk.at, walk.unique)
  /\ walk' = [walk EXCEPT !.at = 0, !.turn = 1 - @]
  /\ TreeFrame

\* One turn of `while (ancestor)` that goes on: ancestor = ancestor.group
TopWalk ==
  /\ walk.op = "getTopElements"
  /\ ~walk.done
  /\ walk.at # 0
  /\ ~InSeq(walk.at, walk.unique)
  /\ walk' = [walk EXCEPT !.at = GroupOf(walk.kids, walk.at), !.turn = 1 - @]
  /\ TreeFrame

\* A loop end that pushes the elements that have a selected ancestor
TopDecideInverted ==
  /\ walk.op = "getTopElements"
  /\ ~walk.done
  /\ walk.at = 0 \/ InSeq(walk.at, walk.unique)
  /\ LET e == walk.unique[walk.pos]
         top == IF walk.at # 0 THEN Append(walk.top, e) ELSE walk.top
         atEnd == walk.pos = Len(walk.unique)
     IN walk' = [walk EXCEPT !.top = top,
                             !.pos = IF atEnd THEN @ ELSE @ + 1,
                             !.at = IF atEnd THEN 0
                                    ELSE GroupOf(walk.kids, walk.unique[walk.pos + 1]),
                             !.done = atEnd]
  /\ TreeFrame

\* The while loop ends (a selected ancestor, or none left), the element is
\* pushed when it has no selected ancestor, the for loop goes to the next
TopDecide ==
  /\ walk.op = "getTopElements"
  /\ ~walk.done
  /\ walk.at = 0 \/ InSeq(walk.at, walk.unique)
  /\ LET e == walk.unique[walk.pos]
         top == IF walk.at = 0 THEN Append(walk.top, e) ELSE walk.top
         atEnd == walk.pos = Len(walk.unique)
     IN walk' = [walk EXCEPT !.top = top,
                             !.pos = IF atEnd THEN @ ELSE @ + 1,
                             !.at = IF atEnd THEN 0
                                    ELSE GroupOf(walk.kids, walk.unique[walk.pos + 1]),
                             !.done = atEnd]
  /\ TreeFrame

\* hasDescendantElementImpl(container, element) is called: _container = element.group
HasDescendantCall ==
  \E c \in Nodes, e \in Nodes :
    /\ walk.op = "none"
    /\ walk' = [op |-> "hasDescendant", kids |-> walk.kids, container |-> c,
                element |-> e, at |-> GroupOf(walk.kids, e), res |-> FALSE,
                done |-> FALSE, turn |-> 0]
  /\ TreeFrame

\* One turn of `while (_container)` that goes on: _container = _container.group
HasDescendantWalk ==
  /\ walk.op = "hasDescendant"
  /\ ~walk.done
  /\ walk.at # 0
  /\ walk.at # walk.container
  /\ walk' = [walk EXCEPT !.at = GroupOf(walk.kids, walk.at), !.turn = 1 - @]
  /\ TreeFrame

\* return true at the container, return false after the loop
HasDescendantReturn ==
  /\ walk.op = "hasDescendant"
  /\ ~walk.done
  /\ walk.at = 0 \/ walk.at = walk.container
  /\ walk' = [walk EXCEPT !.res = walk.at = walk.container, !.done = TRUE]
  /\ TreeFrame

TreeInit ==
  /\ SurfaceInit
  /\ \E kids \in GroupGraphs : walk = [op |-> "none", kids |-> kids]
  /\ ungroup = NoUngroup
  /\ field = NoField
  /\ NoPointerUtility

TreeStep ==
  \/ TopWalk
  \/ TopDecide
  \/ HasDescendantWalk
  \/ HasDescendantReturn

TreeNext ==
  \/ TopCall
  \/ TopCallAgain
  \/ HasDescendantCall
  \/ DescendantsCall
  \/ TopWalk
  \/ TopDecide
  \/ HasDescendantWalk
  \/ HasDescendantReturn

SpecTree == TreeInit /\ [][TreeNext]_vars

\* A call that has started runs on: its loops are not suspended
SpecTreeFair == SpecTree /\ WF_vars(TreeStep)

----------------------------------------------------------------------------
\* ungroupCommand and its index generation (group-api.ts). A key is a
\* positive integer, 0 stands for a string that is no valid key, {} for null
\* and {k} for the key k where a key may be absent. The key generator is the
\* imported fractional-indexing library: gen says what it does on each call,
\* follow its contract ("lib": n keys strictly between the bounds, in
\* increasing order, an exception for an invalid or an empty interval), throw,
\* or return fewer keys than asked ("short").

MaxChildren == 3
KeyGap == MaxChildren + 1
InvalidKey == 0
NoKey == {}

\* The children of the group are 1..n; compare(a, b) of the layer manager is
\* a - b, so the layer order of the children is the order of their numbers
LayerCompare(a, b) == a - b

ValidBound(b) == b = NoKey \/ MinOf(b) # InvalidKey

\* generateNKeysBetween(left, right, count) of the library, by its contract
LibraryThrows(left, right) ==
  \/ ~ValidBound(left)
  \/ ~ValidBound(right)
  \/ (left # NoKey /\ right # NoKey /\ MinOf(left) >= MinOf(right))

LibraryKeys(left, right, count) ==
  LET base == IF left # NoKey THEN MinOf(left)
              ELSE IF right # NoKey THEN MinOf(right) - count - 1
              ELSE 0
  IN [i \in 1..count |-> base + i]

NCall(left, right, count) ==
  [fn |-> "generateNKeysBetween", left |-> left, right |-> right, count |-> count]

OneCall(left, right) ==
  [fn |-> "generateKeyBetween", left |-> left, right |-> right, count |-> 1]

\* tryGenerateN(left, right), the attempt-th batched call: null is ok = FALSE
TryGenerateN(gen, attempt, left, right, count) ==
  LET mode == gen.batched[attempt]
  IN IF mode = "throw" \/ (mode = "lib" /\ LibraryThrows(left, right))
       THEN [ok |-> FALSE, keys |-> << >>]
     ELSE IF mode = "short"
       THEN [ok |-> FALSE, keys |-> LibraryKeys(left, right, count - 1)]
     ELSE [ok |-> TRUE, keys |-> LibraryKeys(left, right, count)]

\* A key-by-key generation that never moves the cursor
RECURSIVE OneByOneFixedCursor(_, _, _, _, _, _)
OneByOneFixedCursor(gen, cursor, right, todo, keys, calls) ==
  IF todo = 0 THEN [ok |-> TRUE, keys |-> keys, calls |-> calls]
  ELSE LET calls1 == Append(calls, OneCall(cursor, right))
       IN IF gen.single = Len(keys) + 1 \/ LibraryThrows(cursor, right)
            THEN [ok |-> FALSE, keys |-> << >>, calls |-> calls1]
            ELSE OneByOneFixedCursor(gen, cursor, right, todo - 1,
                   Append(keys, LibraryKeys(cursor, right, 1)[1]), calls1)

\* orderedElements.map(() => { cursor = generateKeyBetween(cursor, right);
\* return cursor }): the call number gen.single throws
RECURSIVE OneByOne(_, _, _, _, _, _)
OneByOne(gen, cursor, right, todo, keys, calls) ==
  IF todo = 0 THEN [ok |-> TRUE, keys |-> keys, calls |-> calls]
  ELSE LET calls1 == Append(calls, OneCall(cursor, right))
       IN IF gen.single = Len(keys) + 1 \/ LibraryThrows(cursor, right)
            THEN [ok |-> FALSE, keys |-> << >>, calls |-> calls1]
            ELSE LET key == LibraryKeys(cursor, right, 1)[1]
                 IN OneByOne(gen, {key}, right, todo - 1, Append(keys, key), calls1)

\* tryGenerateOneByOne(left, right)
TryGenerateOneByOne(gen, left, right, count) ==
  OneByOne(gen, left, right, count, << >>, << >>)

\* Strategies that try the anchor before they drop the upper bound
StrategiesAnchorFirst(afterIndex, beforeIndex, fallbackAnchorIndex) ==
  << <<afterIndex, beforeIndex>>, <<{fallbackAnchorIndex}, NoKey>>,
     <<afterIndex, NoKey>>, <<NoKey, NoKey>> >>

\* The batched strategies in the order they are tried
Strategies(afterIndex, beforeIndex, fallbackAnchorIndex) ==
  << <<afterIndex, beforeIndex>>, <<afterIndex, NoKey>>,
     <<{fallbackAnchorIndex}, NoKey>>, <<NoKey, NoKey>> >>

\* a ?? b ?? c ?? d over the batched strategies from the attempt-th on, then
\* the key-by-key generation, then []
RECURSIVE FirstSuccess(_, _, _, _, _)
FirstSuccess(gen, strategies, attempt, count, calls) ==
  IF attempt > Len(strategies)
    THEN LET r == TryGenerateOneByOne(gen, NoKey, NoKey, count)
         IN [keys |-> IF r.ok THEN r.keys ELSE << >>, calls |-> calls \o r.calls]
    ELSE LET left == strategies[attempt][1]
             right == strategies[attempt][2]
             r == TryGenerateN(gen, attempt, left, right, count)
             calls1 == Append(calls, NCall(left, right, count))
         IN IF r.ok THEN [keys |-> r.keys, calls |-> calls1]
            ELSE FirstSuccess(gen, strategies, attempt + 1, count, calls1)

\* buildUngroupIndexes(orderedElements, afterIndex, beforeIndex, fallbackAnchorIndex):
\* the keys returned and the calls made to the generator
BuildUngroupIndexes(gen, count, afterIndex, beforeIndex, fallbackAnchorIndex) ==
  IF count = 0 THEN [keys |-> << >>, calls |-> << >>]
  ELSE FirstSuccess(gen, Strategies(afterIndex, beforeIndex, fallbackAnchorIndex),
                    1, count, << >>)

\* [...elements].sort((a, b) => gfx.layer.compare(a, b))
RECURSIVE SortByLayer(_)
SortByLayer(els) ==
  IF els = << >> THEN << >>
  ELSE LET first == CHOOSE a \in SeqSet(els) :
                      \A b \in SeqSet(els) : LayerCompare(a, b) <= 0
       IN <<first>> \o SortByLayer(SeqRemove(els, first))

\* An assignment that gives the keys to the children in their stored order
AssignStored(stored, ordered, keys) ==
  [c \in SeqSet(stored) |->
     IF IndexOf(stored, c) <= Len(keys) THEN {keys[IndexOf(stored, c)]} ELSE {}]

\* orderedElements.forEach((element, idx) => { element.index = nextIndexes[idx] }):
\* the index each child has afterwards, {} for undefined
AssignIndexes(stored, ordered, keys) ==
  [c \in SeqSet(stored) |->
     IF IndexOf(ordered, c) <= Len(keys) THEN {keys[IndexOf(ordered, c)]} ELSE {}]

ChildLists ==
  UNION {{s \in [1..n -> 1..n] : \A i, j \in 1..n : s[i] = s[j] => i = j} :
           n \in 0..MaxChildren}
BoundKeys == {NoKey, {InvalidKey}, {KeyGap}, {2 * KeyGap}}
AnchorKeys == {InvalidKey, KeyGap}
Generators(n) ==
  [batched : [1..4 -> {"lib", "throw", "short"}], single : 0..n]
LibraryGenerator == [batched |-> [i \in 1..4 |-> "lib"], single |-> 0]

\* What an ungroupCommand call is given: the group's children as stored,
\* whether the group is a mind map, whether it has a parent, the indices of
\* the siblings around it (beforeSiblingIndex goes in as afterIndex: the keys
\* come after it), the group's own index, and the generator
UngroupInput(els, mm, par, a, b, f, g) ==
  [op |-> "none", elements |-> els, mindmap |-> mm, parent |-> par,
   afterIndex |-> a, beforeIndex |-> b, anchor |-> f, gen |-> g]

UngroupFrame ==
  UNCHANGED <<elements, blockStore, models, typeMap, groupLike, parentGroupMap,
              groupChildIdsMap, connByEndpoint, connEndpoints, isEmptyFlag, nextId,
              pc, tx, cleanups, batch, hist, readonly, middlewares, last,
              walk, field, coalescer, controller>>

\* ungroupCommand({group}) on a mind map: it returns before it changes anything
UngroupMindmap ==
  /\ ungroup.op = "none"
  /\ ungroup.mindmap
  /\ ungroup' = [op |-> "returned", elements |-> ungroup.elements,
                 mindmap |-> TRUE, parent |-> ungroup.parent]
  /\ UngroupFrame

\* ungroupCommand({group}): kept is what is left in group.childElements,
\* adopted what the parent was given as children, selected what selection.set got
UngroupCall ==
  /\ ungroup.op = "none"
  /\ ~ungroup.mindmap
  /\ LET ordered == SortByLayer(ungroup.elements)
         built == BuildUngroupIndexes(ungroup.gen, Len(ordered), ungroup.afterIndex,
                                      ungroup.beforeIndex, ungroup.anchor)
     IN ungroup' = [op |-> "ungrouped", elements |-> ungroup.elements,
                    mindmap |-> FALSE, parent |-> ungroup.parent,
                    afterIndex |-> ungroup.afterIndex,
                    beforeIndex |-> ungroup.beforeIndex, anchor |-> ungroup.anchor,
                    gen |-> ungroup.gen, ordered |-> ordered,
                    keys |-> built.keys, calls |-> built.calls,
                    index |-> AssignIndexes(ungroup.elements, ordered, built.keys),
                    kept |-> << >>,
                    adopted |-> IF ungroup.parent THEN ordered ELSE << >>,
                    selected |-> ordered]
  /\ UngroupFrame

UngroupInit ==
  /\ SurfaceInit
  /\ walk = NoWalk
  /\ field = NoField
  /\ NoPointerUtility
  /\ \E els \in ChildLists :
       \/ \E par \in BOOLEAN, a \in BoundKeys, b \in BoundKeys, f \in AnchorKeys :
            \E g \in Generators(Len(els)) :
              ungroup = UngroupInput(els, FALSE, par, a, b, f, g)
       \/ ungroup = UngroupInput(els, TRUE, TRUE, NoKey, NoKey, KeyGap,
                                 LibraryGenerator)

UngroupNext ==
  \/ UngroupMindmap
  \/ UngroupCall

SpecUngroup == UngroupInit /\ [][UngroupNext]_vars

----------------------------------------------------------------------------
\* stash / pop on the fields of an element model. The element model and its
\* field decorators are not among the source files; the definitions follow
\* the contract of the primitive element model and the 'stash/pop' tests:
\* rotate is a persisted field (written to the yMap at creation), opacity a
\* local one. yMap[f] and stashed[f] are {} where the map has no entry.

MaxValue == 2
Values == 0..MaxValue
FieldNames == {"rotate", "opacity"}
PersistedFields == {"rotate"}

NoFieldOp == [name |-> "none", f |-> "rotate", v |-> 0, writes |-> 0]

\* the value the getter of f returns
ReadField(fs, f) ==
  IF fs.stashed[f] # {} THEN MinOf(fs.stashed[f])
  ELSE IF f \in PersistedFields THEN MinOf(fs.yMap[f])
  ELSE fs.localValue[f]

\* A stash that takes any field, persisted or not
StashAnyField(fs, f) ==
  [fs EXCEPT !.stashed[f] = IF @ = {} THEN {ReadField(fs, f)} ELSE @,
             !.op = [name |-> "stash", f |-> f, v |-> 0, writes |-> 0]]

\* element.stash(f): a persisted field that is not stashed gets an overlay
\* holding its current value; anything else is left alone
StashField(fs, f) ==
  [fs EXCEPT !.stashed[f] = IF f \in PersistedFields /\ @ = {}
                                THEN {ReadField(fs, f)} ELSE @,
             !.op = [name |-> "stash", f |-> f, v |-> 0, writes |-> 0]]

\* An assignment that writes a stashed field through to the yMap
AssignWritingThrough(fs, f, v) ==
  IF fs.stashed[f] # {}
    THEN [fs EXCEPT !.stashed[f] = {v}, !.yMap[f] = {v},
                    !.op = [name |-> "assign", f |-> f, v |-> v, writes |-> 1]]
  ELSE IF f \in PersistedFields
    THEN [fs EXCEPT !.yMap[f] = {v},
                    !.op = [name |-> "assign", f |-> f, v |-> v, writes |-> 1]]
  ELSE [fs EXCEPT !.localValue[f] = v,
                  !.op = [name |-> "assign", f |-> f, v |-> v, writes |-> 0]]

\* element[f] = v: to the overlay while f is stashed, to the yMap for a
\* persisted field, to the instance for a local one
AssignField(fs, f, v) ==
  IF fs.stashed[f] # {}
    THEN [fs EXCEPT !.stashed[f] = {v},
                    !.op = [name |-> "assign", f |-> f, v |-> v, writes |-> 0]]
  ELSE IF f \in PersistedFields
    THEN [fs EXCEPT !.yMap[f] = {v},
                    !.op = [name |-> "assign", f |-> f, v |-> v, writes |-> 1]]
  ELSE [fs EXCEPT !.localValue[f] = v,
                  !.op = [name |-> "assign", f |-> f, v |-> v, writes |-> 0]]

\* element.pop(f): the overlay value of a stashed field is written to the
\* yMap in one write and the overlay is dropped; anything else is left alone
PopField(fs, f) ==
  IF fs.stashed[f] # {}
    THEN [fs EXCEPT !.yMap[f] = fs.stashed[f], !.stashed[f] = {},
                    !.popped = @ \cup {f},
                    !.op = [name |-> "pop", f |-> f, v |-> MinOf(fs.stashed[f]),
                            writes |-> 1]]
    ELSE [fs EXCEPT !.op = [name |-> "pop", f |-> f, v |-> 0, writes |-> 0]]

FieldFrame ==
  UNCHANGED <<elements, blockStore, models, typeMap, groupLike, parentGroupMap,
              groupChildIdsMap, connByEndpoint, connEndpoints, isEmptyFlag, nextId,
              pc, tx, cleanups, batch, hist, readonly, middlewares, last,
              walk, ungroup, coalescer, controller>>

Stash == \E f \in FieldNames : field' = StashField(field, f) /\ FieldFrame
Assign == \E f \in FieldNames, v \in Values : field' = AssignField(field, f, v) /\ FieldFrame
Pop == \E f \in FieldNames : field' = PopField(field, f) /\ FieldFrame

\* addElement({type: 'testShape', rotate: r}): rotate is in the yMap,
\* opacity is not
FieldInit ==
  /\ SurfaceInit
  /\ walk = NoWalk
  /\ ungroup = NoUngroup
  /\ NoPointerUtility
  /\ \E r \in Values :
       field = [yMap |-> [f \in FieldNames |-> IF f = "rotate" THEN {r} ELSE {}],
                stashed |-> [f \in FieldNames |-> {}],
                localValue |-> [f \in FieldNames |-> 0],
                popped |-> {}, op |-> NoFieldOp]

FieldNext ==
  \/ Stash
  \/ Assign
  \/ Pop

SpecField == FieldInit /\ [][FieldNext]_vars

----------------------------------------------------------------------------
\* createRafCoalescer (raf-coalescer.ts). A payload is the number of the
\* schedule call that passed it, so that a superseded payload can be told
\* from the latest one; 0 stands for undefined and for a null rafId. frames
\* is the host's list of requested frame callbacks: requestAnimationFrame
\* adds an id, cancelAnimationFrame removes it, a frame runs one and drops it.
\* calls, applied, applies and dropped are what the claims remember: the
\* schedule calls made, the payloads apply was invoked with, the apply
\* invocations of the last step, the payloads pending when cancel was called.

MaxSchedules == 4

NewCoalescer ==
  [op |-> "none", pendingPayload |-> 0, hasPendingPayload |-> FALSE, rafId |-> 0,
   frames |-> {}, requested |-> 0,
   calls |-> 0, applied |-> << >>, applies |-> 0, dropped |-> {}]

\* scheduleFrame(run)
ScheduleFrame(c) ==
  [c EXCEPT !.requested = @ + 1, !.frames = @ \cup {c.requested + 1},
            !.rafId = c.requested + 1]

\* cancelFrame(id)
CancelFrame(c, id) == [c EXCEPT !.frames = @ \ {id}]

\* run()
Run(c) ==
  IF ~c.hasPendingPayload
    THEN [c EXCEPT !.rafId = 0, !.applies = 0]
    ELSE [c EXCEPT !.rafId = 0, !.pendingPayload = 0, !.hasPendingPayload = FALSE,
                   !.applied = Append(@, c.pendingPayload), !.applies = 1]

\* A schedule that requests a frame on every call
ScheduleAlwaysRequesting(c, payload) ==
  ScheduleFrame([c EXCEPT !.pendingPayload = payload, !.hasPendingPayload = TRUE,
                          !.applies = 0])

\* schedule(payload)
Schedule(c, payload) ==
  LET c1 == [c EXCEPT !.pendingPayload = payload, !.hasPendingPayload = TRUE,
                      !.applies = 0]
  IN  IF c1.rafId # 0 THEN c1 ELSE ScheduleFrame(c1)

\* flush()
Flush(c) == Run(IF c.rafId # 0 THEN CancelFrame(c, c.rafId) ELSE c)

\* A cancel that cancels the frame and keeps the payload
CancelKeepingPayload(c) ==
  LET c1 == IF c.rafId # 0 THEN [CancelFrame(c, c.rafId) EXCEPT !.rafId = 0] ELSE c
  IN  [c1 EXCEPT !.applies = 0]

\* cancel()
Cancel(c) ==
  LET c1 == IF c.rafId # 0 THEN [CancelFrame(c, c.rafId) EXCEPT !.rafId = 0] ELSE c
  IN  [c1 EXCEPT !.pendingPayload = 0, !.hasPendingPayload = FALSE, !.applies = 0]

Applied(c) == {c.applied[i] : i \in 1..Len(c.applied)}

CoalescerFrame ==
  UNCHANGED <<elements, blockStore, models, typeMap, groupLike, parentGroupMap,
              groupChildIdsMap, connByEndpoint, connEndpoints, isEmptyFlag, nextId,
              pc, tx, cleanups, batch, hist, readonly, middlewares, last,
              walk, ungroup, field, controller>>

ScheduleCall ==
  /\ coalescer.calls < MaxSchedules
  /\ coalescer' = [Schedule(coalescer, coalescer.calls + 1)
                     EXCEPT !.op = "schedule", !.calls = @ + 1]
  /\ CoalescerFrame

\* the host runs a requested frame callback
FrameRun ==
  /\ \E id \in coalescer.frames :
       coalescer' = [Run(CancelFrame(coalescer, id)) EXCEPT !.op = "frame"]
  /\ CoalescerFrame

FlushCall ==
  /\ coalescer' = [Flush(coalescer) EXCEPT !.op = "flush"]
  /\ CoalescerFrame

CancelCall ==
  /\ coalescer' = [Cancel(coalescer) EXCEPT
                     !.op = "cancel",
                     !.dropped = @ \cup ((1..coalescer.calls) \ Applied(coalescer))]
  /\ CoalescerFrame

CoalescerInit ==
  /\ SurfaceInit
  /\ walk = NoWalk
  /\ ungroup = NoUngroup
  /\ field = NoField
  /\ controller = NoController
  /\ coalescer = NewCoalescer

CoalescerNext ==
  \/ ScheduleCall
  \/ FrameRun
  \/ FlushCall
  \/ CancelCall

SpecCoalescer == CoalescerInit /\ [][CoalescerNext]_vars

----------------------------------------------------------------------------
\* AdaptiveStrideController (adaptive-load-controller.ts). res is what the
\* last shouldSkip returned; skipped, lastSkip and orderly are what the
\* claims remember: the shouldSkip calls that returned true in a row,
\* whether the latest tick was skipped, and whether every reportCost so far
\* was made while the latest tick was not a skipped one.

MaxStride == 3
MaxCost == 2
MaxTicks == 7

\* new AdaptiveStrideController({heavyCostMs, maxStride, recoveryCostMs})
NewController(heavyCostMs, maxStride, recoveryCostMs) ==
  [op |-> "none", heavyCostMs |-> heavyCostMs, maxStride |-> maxStride,
   recoveryCostMs |-> recoveryCostMs, _stride |-> 1, _ticks |-> 0,
   res |-> FALSE, skipped |-> 0, lastSkip |-> FALSE, orderly |-> TRUE]

\* A reportCost that raises the stride without the cap
ReportCostUncapped(c, costMs) ==
  IF costMs > c.heavyCostMs
    THEN [c EXCEPT !._stride = @ + 1]
  ELSE IF costMs < c.recoveryCostMs /\ c._stride > 1
    THEN [c EXCEPT !._stride = @ - 1]
  ELSE c

\* reportCost(costMs)
ReportCost(c, costMs) ==
  IF costMs > c.heavyCostMs
    THEN [c EXCEPT !._stride = IF c.maxStride < @ + 1 THEN c.maxStride ELSE @ + 1]
  ELSE IF costMs < c.recoveryCostMs /\ c._stride > 1
    THEN [c EXCEPT !._stride = @ - 1]
  ELSE c

\* reset()
Reset(c) == [c EXCEPT !._stride = 1, !._ticks = 0]

\* shouldSkip()
ShouldSkip(c) ==
  [c EXCEPT !.res = c._stride > 1 /\ c._ticks % c._stride # 0,
            !._ticks = @ + 1]

ControllerFrame ==
  UNCHANGED <<elements, blockStore, models, typeMap, groupLike, parentGroupMap,
              groupChildIdsMap, connByEndpoint, connEndpoints, isEmptyFlag, nextId,
              pc, tx, cleanups, batch, hist, readonly, middlewares, last,
              walk, ungroup, field, coalescer>>

ReportCostCall ==
  /\ \E costMs \in 0..(MaxCost + 1) :
       controller' = [ReportCost(controller, costMs) EXCEPT
                        !.op = "reportCost",
                        !.orderly = @ /\ ~controller.lastSkip]
  /\ ControllerFrame

ResetCall ==
  /\ controller' = [Reset(controller) EXCEPT !.op = "reset"]
  /\ ControllerFrame

ShouldSkipCall ==
  /\ controller._ticks < MaxTicks
  /\ LET c == ShouldSkip(controller)
     IN  controller' = [c EXCEPT !.op = "shouldSkip",
                                 !.lastSkip = c.res,
                                 !.skipped = IF c.res THEN @ + 1 ELSE 0]
  /\ ControllerFrame

ControllerInit ==
  /\ SurfaceInit
  /\ walk = NoWalk
  /\ ungroup = NoUngroup
  /\ field = NoField
  /\ coalescer = NoCoalescer
  /\ \E heavyCostMs \in 0..MaxCost, maxStride \in 1..MaxStride,
        recoveryCostMs \in 0..MaxCost :
       controller = NewController(heavyCostMs, maxStride, recoveryCostMs)

ControllerNext ==
  \/ ReportCostCall
  \/ ResetCall
  \/ ShouldSkipCall

SpecController == ControllerInit /\ [][ControllerNext]_vars

----------------------------------------------------------------------------
\* canSafeAddToContainer (tree.ts) guarding every addition to a group. The
\* graph is walk.kids; walk.group is what element.group returns: the group
\* that added the element last, 0 for null. An addChild leaves the element
\* in the groups it already belongs to.

\* element.group, element.group.group, ... from at: whether the chain meets
\* the container, or runs in a circle without meeting it (the loop of
\* hasDescendantElementImpl never ends then)
RECURSIVE GroupChain(_, _, _, _)
GroupChain(group, container, at, seen) ==
  IF at = 0 THEN [found |-> FALSE, hangs |-> FALSE]
  ELSE IF at = container THEN [found |-> TRUE, hangs |-> FALSE]
  ELSE IF at \in seen THEN [found |-> FALSE, hangs |-> TRUE]
  ELSE GroupChain(group, container, group[at], seen \cup {at})

\* container.hasDescendant(element)
HasDescendant(group, container, element) ==
  GroupChain(group, container, group[element], {})

\* canSafeAddToContainer(container, element)
CanSafeAddToContainer(group, container, element) ==
  ~(element = container \/ HasDescendant(group, element, container).found)

\* the elements reachable from the children of e
RECURSIVE DescendantsFrom(_, _)
DescendantsFrom(kids, S) ==
  LET next == S \cup UNION {kids[g] : g \in S}
  IN IF next = S THEN S ELSE DescendantsFrom(kids, next)

Descendants(kids, e) == DescendantsFrom(kids, kids[e])

AcyclicGraph(kids) == \A e \in Nodes : e \notin Descendants(kids, e)

\* no element is in two groups
OneParent(kids) == \A e \in Nodes : Cardinality({g \in Nodes : e \in kids[g]}) <= 1

\* if (canSafeAddToContainer(container, element)) container.addChild(element)
GuardedAddChild ==
  /\ \E container \in Nodes, element \in Nodes :
       LET safe == CanSafeAddToContainer(walk.group, container, element)
           adds == safe /\ element \notin walk.kids[container]
       IN /\ ~HasDescendant(walk.group, element, container).hangs
          /\ walk' = [op |-> "addChild",
                      kids |-> IF adds
                                 THEN [walk.kids EXCEPT ![container] = @ \cup {element}]
                                 ELSE walk.kids,
                      group |-> IF adds
                                  THEN [walk.group EXCEPT ![element] = container]
                                  ELSE walk.group,
                      container |-> container, element |-> element, safe |-> safe,
                      below |-> container \in Descendants(walk.kids, element)]
  /\ TreeFrame

\* an acyclic forest, element.group being the one group that holds the element
GuardInit ==
  /\ SurfaceInit
  /\ \E kids \in GroupGraphs :
       /\ OneParent(kids)
       /\ AcyclicGraph(kids)
       /\ walk = [op |-> "none", kids |-> kids,
                  group |-> [e \in Nodes |-> GroupOf(kids, e)],
                  container |-> 0, element |-> 0, safe |-> FALSE, below |-> FALSE]
  /\ ungroup = NoUngroup
  /\ field = NoField
  /\ NoPointerUtility

GuardNext == GuardedAddChild

SpecGuard == GuardInit /\ [][GuardNext]_vars

----------------------------------------------------------------------------
\* C1: once the transactions have committed and their observers are through,
\* the ids with a live element model (hasElementById / getElementById) are
\* exactly the keys of the elements storage map.
C1_LiveIdsEqualStorageKeys == Settled => DOMAIN models = DOMAIN elements

\* C2: once every storage change batch and element update is fully processed,
\* the connector ids indexed under an id e are exactly the live connectors whose
\* current source id or target id is e.
IndexedUnder(e) == IF e \in DOMAIN connByEndpoint THEN connByEndpoint[e] ELSE {}
ConnectorsAt(e) ==
  {c \in DOMAIN models :
     models[c].type = "connector" /\ e \in models[c].source \cup models[c].target}
C2_EndpointIndexEqualsScan ==
  Settled => \A e \in AllIds : IndexedUnder(e) = ConnectorsAt(e)

\* C4: getGroup(x) never returns a group that does not contain x: a cached
\* parent that is a known group but no longer contains x is purged, the outcome
\* is that of the containment scan, and the parent index agrees with it.
GetGroupAgrees ==
  IF hist.got.res = {} THEN hist.got.id \notin DOMAIN parentGroupMap
  ELSE /\ hist.got.id \in DOMAIN parentGroupMap
       /\ hist.got.res = {parentGroupMap[hist.got.id]}
C4_GetGroupContainsChild ==
  hist.got.on =>
    /\ \A g \in hist.got.res : HasChild(ChildIdsOf(models, groupLike), g, hist.got.id)
    /\ GetGroupAgrees

\* C3: immediately after syncGroupChildrenIndex(G, C) the parent index maps
\* every c in C to G, so that getGroup(c) is G when G is a known group, and no id
\* that was a child of G before the call and is not in C still maps to G.
MapsTo(x, g) == x \in DOMAIN parentGroupMap /\ parentGroupMap[x] = g
GetGroupNow(x) ==
  GetGroup(parentGroupMap, groupLike, ChildIdsOf(models, groupLike),
           Live \cup blockStore, x).group
C3_SyncMapsChildrenToGroup ==
  hist.op = "sync" =>
    /\ \A c \in hist.next :
         /\ MapsTo(c, hist.g)
         /\ InSeq(hist.g, groupLike) => GetGroupNow(c) = {hist.g}
    /\ \A c \in hist.was \ hist.next : ~MapsTo(c, hist.g)
C3_Witness ==
  /\ hist.op = "sync"
  /\ InSeq(hist.g, groupLike)
  /\ hist.next # {}
  /\ hist.was \ hist.next # {}
  /\ \E c \in hist.was \ hist.next, h \in Ids : h # hist.g /\ MapsTo(c, h)

\* C5: after removeGroupFromChildrenIndex(G), whatever syncs (with or without
\* an explicit previous list), getGroup calls and removals came before, the
\* children snapshot has no entry for G and no parent-index entry maps to G.
C5_RemoveGroupPurgesIndex ==
  hist.op = "remove" =>
    /\ hist.g \notin DOMAIN groupChildIdsMap
    /\ \A x \in AllIds : ~MapsTo(x, hist.g)

\* C6: while a storage change batch is processed, no elementAdded and no
\* elementRemoved is emitted before every changed key of the batch is applied
\* to the element map, the type index and the group index.
InTypeIndex(k) == \E t \in DOMAIN typeMap : InSeq(k, typeMap[t])
KeyApplied(k) ==
  LET action == YAction(HeadTx, k)
  IN IF action = "add" /\ k \in DOMAIN elements
       THEN /\ k \in DOMAIN models
            /\ InSeq(k, typeMap[models[k].type])
            /\ models[k].type = "group" =>
                 InSeq(k, groupLike) /\ k \in DOMAIN groupChildIdsMap
     ELSE IF action = "delete"
       THEN /\ k \notin DOMAIN models
            /\ ~InTypeIndex(k)
            /\ ~InSeq(k, groupLike)
            /\ k \notin DOMAIN groupChildIdsMap
     ELSE TRUE
EmptiedGroupGone(g) == g \notin DOMAIN models /\ g \in hist.removed
C7_EmptiedGroupIsDeleted ==
  \A g \in Ids : (g \in hist.emptied) ~> EmptiedGroupGone(g)

\* C8: once deleteElement(G) of a group G is fully processed, G and every
\* element that was live and reachable from G through childIds are not live,
\* every block child collected in the closure is deleted, and neither the parent
\* index nor the children snapshot has an entry whose key or value is a deleted
\* id; so also when a child of G is a group that is or becomes empty.
DeletedIds == hist.del.reach \cup hist.del.ids \cup hist.del.blocks
RECURSIVE TransitiveClosure(_)
TransitiveClosure(R) ==
  LET step == R \cup {<<pq[1][1], pq[2][2]>> :
                        pq \in {x \in R \X R : x[1][2] = x[2][1]}}
  IN IF step = R THEN R ELSE TransitiveClosure(step)
RemovedBefore(c, g) ==
  \E i, j \in 1..Len(hist.del.order) :
    i < j /\ hist.del.order[i] = c /\ hist.del.order[j] = g
RemovedOnce ==
  /\ SeqSet(hist.del.order) = hist.del.ids
  /\ Len(hist.del.order) = Cardinality(hist.del.ids)
C9_PostOrderRemoval ==
  hist.del.on =>
    /\ RemovedOnce
    /\ \A e \in TransitiveClosure(hist.del.edges) : RemovedBefore(e[2], e[1])

\* C9 as the code has it: each id is collected and removed once; a child of a
\* group is removed before the group unless the group is reachable from the
\* child (the two are on a cycle); in an acyclic closure every transitive child
\* is removed before its group.
Acyclic(R) == \A e \in TransitiveClosure(R) : e[1] # e[2]
C9_PostOrderUpToCycles ==
  hist.del.on =>
    /\ RemovedOnce
    /\ \A e \in hist.del.edges :
         \/ RemovedBefore(e[2], e[1])
         \/ <<e[2], e[1]>> \in TransitiveClosure(hist.del.edges)
         \/ e[1] = e[2]
    /\ Acyclic(hist.del.edges) =>
         \A e \in TransitiveClosure(hist.del.edges) : RemovedBefore(e[2], e[1])
C9_Witness ==
  /\ hist.del.on
  /\ Len(hist.del.order) >= 2
  /\ \E e \in hist.del.edges :
       /\ e[1] # e[2]
       /\ RemovedBefore(e[2], e[1])
       /\ <<e[2], e[1]>> \in hist.del.edges

\* C10: every storage removal of one deleteElement call (the elements of the
\* closure, the detaching from surviving parent groups, the collected blocks)
\* is made in a single transaction, and no elementRemoved or elementUpdated is
\* delivered between the first removal and the last.
DeleteElementCalled == hist'.del.on /\ (~hist.del.on \/ hist'.del # hist.del)
TransactionOfCall == IF pc' = "tx" THEN tx' ELSE cleanups'[Len(cleanups')]
RecordedKeys(t) ==
  UNION {SeqSet(t.changed[i].keys) :
           i \in {j \in 1..Len(t.changed) : t.changed[j].kind = "elements"}}
RecordedChildren(t) ==
  {t.changed[i].id : i \in {j \in 1..Len(t.changed) : t.changed[j].kind = "children"}}
C10_CascadeInOneTransaction ==
  [][DeleteElementCalled =>
       /\ hist'.del.ids \cap DOMAIN elements' = {}
       /\ hist'.del.blocks \cap blockStore' = {}
       /\ IF pc = "tx" THEN pc' = "tx" /\ cleanups' = cleanups
          ELSE Len(cleanups') = Len(cleanups) + 1
       /\ (DOMAIN elements) \ (DOMAIN elements') \subseteq
            RecordedKeys(TransactionOfCall)
       /\ blockStore \ blockStore' \subseteq SeqSet(TransactionOfCall.blocks)
       /\ \A g \in DOMAIN elements' :
            elements'[g].children # elements[g].children /\ g \in TransactionOfCall.pre
              => g \in RecordedChildren(TransactionOfCall)
       /\ hist'.removed = hist.removed
       /\ hist'.emptied = hist.emptied
       /\ models' = models
  ]_vars
C10_Witness ==
  /\ hist.del.on
  /\ pc = "cleanup"
  /\ Len(cleanups) = 1
  /\ Cardinality(hist.del.ids) >= 2
  /\ hist.del.blocks # {}
  /\ Cardinality(RecordedKeys(HeadTx)) >= 2
  /\ RecordedChildren(HeadTx) # {}

----------------------------------------------------------------------------
\* What a call that fails or does nothing leaves alone: storage, the element
\* map, every index, and the observers due (no transaction is handed over, so
\* no event follows).
NothingWrittenOrEmitted ==
  UNCHANGED <<elements, blockStore, models, typeMap, groupLike, parentGroupMap,
              groupChildIdsMap, connByEndpoint, connEndpoints, isEmptyFlag,
              pc, tx, cleanups, batch>>

DeleteOfMissing == last'.op = "deleteElement" /\ last'.id \notin DOMAIN models

\* C11: deleteElement(id) with an id that has no live element is a silent
\* no-op in every state of the model: no error, no change of storage or index
\* state, no event.
C11_DeleteMissingIsNoOp ==
  [][DeleteOfMissing => (last'.threw = "none" /\ NothingWrittenOrEmitted)]_vars

\* C11 as the code has it: on a writable document deleteElement(id) of an id
\* without live element is a silent no-op; on a read-only document it throws
\* the read-only error before it looks at the id; in both cases nothing is
\* written and no event is emitted.
C11_DeleteMissingIsNoOpWhenWritable ==
  [][DeleteOfMissing =>
       /\ last'.threw = (IF readonly THEN "readonly" ELSE "none")
       /\ NothingWrittenOrEmitted]_vars
C11_Witness ==
  /\ last.op = "deleteElement"
  /\ last.threw = "none"
  /\ ~readonly
  /\ last.id \in hist.removed
  /\ last.id \notin DOMAIN models
  /\ DOMAIN models # {}

\* C12: updateElement(id, props) throws when the document is read-only and
\* throws when id has no live element; in both cases nothing is written to
\* storage, no index changes and no event is emitted.
C12_UpdateThrows ==
  [][(last'.op = "updateElement" /\ (readonly \/ last'.id \notin DOMAIN models)) =>
       /\ last'.threw = (IF readonly THEN "readonly" ELSE "notFound")
       /\ NothingWrittenOrEmitted]_vars
C12_Witness ==
  /\ last.op = "updateElement"
  /\ last.threw = "notFound"
  /\ last.id \in hist.removed
  /\ DOMAIN models # {}

\* C13: addElement on a read-only document throws and leaves storage, the
\* element map and every index unchanged, and emits no event.
C13_AddThrowsWhenReadonly ==
  [][(last'.op = "addElement" /\ readonly) =>
       /\ last'.threw = "readonly"
       /\ NothingWrittenOrEmitted]_vars
C13_Witness ==
  /\ last.op = "addElement"
  /\ last.threw = "readonly"
  /\ readonly
  /\ middlewares # << >>
  /\ DOMAIN models # {}

\* C14: addElement with a type that has no registered constructor throws at
\* construction time, and the element map, storage and all indices are as
\* before the call: no partially registered element remains.
C14_AddThrowsOnInvalidType ==
  [][(/\ last'.op = "addElement"
      /\ ~readonly
      /\ \E rec \in last'.res : rec.type \notin RegisteredTypes) =>
       /\ last'.threw = "invalidType"
       /\ NothingWrittenOrEmitted]_vars
C14_Witness ==
  /\ last.op = "addElement"
  /\ last.threw = "invalidType"
  /\ middlewares # << >>
  /\ DOMAIN models # {}

\* The props the first n middlewares of the list make of rec
RECURSIVE PropsAfter(_, _, _)
PropsAfter(mids, rec, n) ==
  IF n = 0 THEN rec ELSE ApplyMiddleware(mids[n], PropsAfter(mids, rec, n - 1))

\* C15: addElement runs every registered middleware exactly once, in the order
\* of the registered list, each seeing the props as rewritten by the previous
\* ones, all of them before the id is allocated and before anything is written
\* to storage; the persisted element carries the props the last one left.
C15_MiddlewaresInOrderBeforeWrite ==
  (last.op = "addElement" /\ last.threw = "none") =>
    LET n == Len(middlewares)
    IN \A rec \in last.res :
         /\ Len(last.log) = n + 2
         /\ \A i \in 1..n :
              last.log[i] = [ev |-> "middleware", kind |-> middlewares[i],
                             props |-> PropsAfter(middlewares, rec, i - 1)]
         /\ last.log[n + 1].ev = "id"
         /\ last.log[n + 2] = LogEntry("write", PropsAfter(middlewares, rec, n))
         /\ last.id \in DOMAIN elements
         /\ elements[last.id] = PropsAfter(middlewares, rec, n)
C15_Witness ==
  /\ last.op = "addElement"
  /\ last.threw = "none"
  /\ Len(middlewares) = 2
  /\ \E rec \in last.res :
       /\ elements[last.id] # rec
       /\ elements[last.id] #
            ApplyMiddleware(middlewares[1], ApplyMiddleware(middlewares[2], rec))

\* C16: each successful addElement call causes exactly one elementAdded event,
\* carrying the id the call returned; once the call has returned
\* getElementById(id) yields the new model; and the model registered before the
\* storage write is the one the storage observer uses: no second model is
\* constructed for the id.
Allocated == 1..(nextId - 1)
C16_OneElementAddedPerAdd ==
  /\ \A id \in Allocated :
       /\ hist.added[id] <= 1
       /\ hist.made[id] = 1
       /\ id \in DOMAIN elements => id \in DOMAIN models
  /\ Settled => \A id \in Allocated : hist.added[id] = 1

\* C17: syncGroupChildrenIndex is idempotent: a second call with the same group
\* id and the same nextChildIds (and the same previous list, when one is given)
\* leaves the parent index and the children snapshot as the first call left them.
IndexNow == [pm |-> parentGroupMap, cm |-> groupChildIdsMap]
C17_SyncIsIdempotent ==
  /\ hist.op = "sync" =>
       SyncGroupChildrenIndexLookup(IndexNow, hist.g, hist.next) = IndexNow
  /\ hist.op = "syncPrevious" =>
       SyncGroupChildrenIndex(IndexNow, hist.g, hist.next, hist.was) = IndexNow
C17_Witness ==
  /\ hist.op = "sync"
  /\ hist.next \ hist.was # {}
  /\ hist.was \ hist.next # {}
  /\ \A c \in hist.next : MapsTo(c, hist.g)

\* C18: when the parent index maps x to a group id that is not a known group,
\* getGroup(x) deletes that entry and scans all known groups for one that
\* contains x: a group found is returned and recorded as x's parent, otherwise
\* null is returned and the index has no entry for x; no entry is created under
\* the stale group id.
StaleParentOf(x) ==
  x \in DOMAIN parentGroupMap /\ ~InSeq(parentGroupMap[x], groupLike)
GroupsContaining(x) ==
  {g \in SeqSet(groupLike) : HasChild(ChildIdsOf(models, groupLike), g, x)}
NothingNewUnder(stale, x) ==
  /\ (stale # x /\ stale \in DOMAIN parentGroupMap') =>
       stale \in DOMAIN parentGroupMap /\ parentGroupMap'[stale] = parentGroupMap[stale]
  /\ \A k \in DOMAIN parentGroupMap' :
       parentGroupMap'[k] = stale => (k \in DOMAIN parentGroupMap /\ parentGroupMap[k] = stale)
GetGroupHeals(x) ==
  /\ IF GroupsContaining(x) = {}
       THEN hist'.res = {} /\ x \notin DOMAIN parentGroupMap'
       ELSE /\ hist'.res # {}
            /\ hist'.res \subseteq GroupsContaining(x)
            /\ x \in DOMAIN parentGroupMap'
            /\ parentGroupMap'[x] \in hist'.res
  /\ \A k \in DOMAIN parentGroupMap : k # x => MapsTo(k, parentGroupMap[k])'
C18_GetGroupStaleParent ==
  [][(hist'.op = "getGroup" /\ StaleParentOf(hist'.id)) =>
       /\ GetGroupHeals(hist'.id)
       /\ NothingNewUnder(parentGroupMap[hist'.id], hist'.id)]_vars

\* C18 as the code has it: the scan is made for an x that resolves to a live
\* element or a block; for an id that resolves to nothing getGroup deletes the
\* stale entry and returns null without scanning.
C18_GetGroupStaleParentResolved ==
  [][(hist'.op = "getGroup" /\ StaleParentOf(hist'.id)) =>
       /\ IF hist'.id \in Live \cup blockStore
            THEN GetGroupHeals(hist'.id)
            ELSE /\ hist'.res = {}
                 /\ hist'.id \notin DOMAIN parentGroupMap'
                 /\ \A k \in DOMAIN parentGroupMap :
                      k # hist'.id => MapsTo(k, parentGroupMap[k])'
       /\ NothingNewUnder(parentGroupMap[hist'.id], hist'.id)]_vars
C18_Witness ==
  /\ hist.op = "getGroup"
  /\ hist.was # {}
  /\ hist.was \cap SeqSet(groupLike) = {}
  /\ hist.res # {}
  /\ \E g \in hist.res : InSeq(g, groupLike) /\ MapsTo(hist.id, g)

----------------------------------------------------------------------------
\* Claims about the connector endpoint index (SpecConn)

LiveConnectors == {c \in DOMAIN models : models[c].type = "connector"}

\* C19: getConnectors(id) returns exactly the connectors indexed under id
\* that are live when it is called, so only live connectors; every id indexed
\* under id that is not a live connector is gone after the call from the
\* cached pairs and from the set of every endpoint; the call returns, it
\* never throws.
C19_GetConnectorsHealsIndex ==
  [][last'.op = "getConnectors" =>
       LET stale == IndexedUnder(last'.id) \ LiveConnectors
       IN /\ last'.threw = "none"
          /\ last'.res \subseteq LiveConnectors
          /\ last'.res = IndexedUnder(last'.id) \cap LiveConnectors
          /\ \A c \in stale :
               /\ c \notin DOMAIN connEndpoints'
               /\ \A e \in DOMAIN connByEndpoint' : c \notin connByEndpoint'[e]]_vars

\* getConnectors has just returned after removing a stale connector id
C19_Witness ==
  /\ last.op = "getConnectors"
  /\ last.log # << >>
  /\ \A i \in 1..Len(last.log) : last.log[i] \notin LiveConnectors
  /\ \A i \in 1..Len(last.log) : last.log[i] \notin DOMAIN connEndpoints

CachedPair(c) == connEndpoints[c]
CurrentPair(c) == [sourceId |-> models[c].source, targetId |-> models[c].target]

\* C20: when _setConnectorEndpoints runs for a connector whose current
\* (sourceId, targetId) pair equals the pair cached for it, the
\* endpoint-to-connectors index and the cached pairs are left as they were.
C20_ResyncOfSamePairIsNoOp ==
  [][(/\ last'.op = "setConnectorEndpoints"
      /\ last'.id \in DOMAIN connEndpoints
      /\ CachedPair(last'.id) = CurrentPair(last'.id))
       => UNCHANGED <<connByEndpoint, connEndpoints>>]_vars

\* a connector attached to an element has just been re-synchronised and its
\* cached pair is its current pair
C20_Witness ==
  /\ last.op = "setConnectorEndpoints"
  /\ last.id \in DOMAIN connEndpoints
  /\ CachedPair(last.id) = CurrentPair(last.id)
  /\ \E e \in DOMAIN connByEndpoint : last.id \in connByEndpoint[e]

----------------------------------------------------------------------------
\* Claims about the tree utilities (SpecTree, SpecTreeFair)

\* The groups on the chain element.group, element.group.group, ...
RECURSIVE AncestorsFrom(_, _, _)
AncestorsFrom(kids, at, seen) ==
  IF at = 0 \/ at \in seen THEN seen
  ELSE AncestorsFrom(kids, GroupOf(kids, at), seen \cup {at})

Ancestors(kids, e) == AncestorsFrom(kids, GroupOf(kids, e), {})

NoRepeat(s) == \A i, j \in 1..Len(s) : s[i] = s[j] => i = j

\* Every element is a child of at most one group and no element is its own ancestor
Forest(kids) ==
  /\ \A e \in Nodes : Cardinality({g \in Nodes : e \in kids[g]}) <= 1
  /\ \A e \in Nodes : e \notin Ancestors(kids, e)

\* C21: every call of getTopElements returns, whatever the list and the group
\* graph, cyclic ancestor chains without a selected element included.
C21_TopElementsTerminates ==
  (walk.op = "getTopElements") ~> (walk.op = "getTopElements" /\ walk.done)

\* C22: every call of hasDescendantElementImpl returns, whatever the group
\* graph, an ancestor chain of the element that is cyclic and does not pass
\* through the container included.
C22_HasDescendantTerminates ==
  (walk.op = "hasDescendant") ~> (walk.op = "hasDescendant" /\ walk.done)

\* what hasDescendantElementImpl returns, when it returns
HasDescendantResult ==
  (walk.op = "hasDescendant" /\ walk.done) =>
    (walk.res <=> walk.container \in Ancestors(walk.kids, walk.element))

\* C23: the list descendantElementsImpl returns never contains the same
\* element twice, for every group graph, cycles and containers with several
\* children included.
C23_DescendantsUnique ==
  walk.op = "descendantElements" => NoRepeat(walk.res)

\* C24: on an acyclic group forest getTopElements returns the input elements
\* none of whose ancestors is in the input, each once, in the order of their
\* first occurrence in the input.
C24_TopElementsOnForest ==
  (walk.op = "getTopElements" /\ walk.done /\ ~walk.again /\ Forest(walk.kids)) =>
    walk.top = SelectSeq(Unique(walk.input),
                         LAMBDA e : Ancestors(walk.kids, e) \cap SeqSet(walk.input) = {})

\* getTopElements has returned on a forest, having left out an element whose
\* parent is not in the input and whose grandparent is
C24_Witness ==
  /\ walk.op = "getTopElements"
  /\ walk.done
  /\ ~walk.again
  /\ Forest(walk.kids)
  /\ walk.top # << >>
  /\ \E e \in SeqSet(walk.input) :
       LET p == GroupOf(walk.kids, e)
       IN /\ p # 0
          /\ p \notin SeqSet(walk.input)
          /\ GroupOf(walk.kids, p) \in SeqSet(walk.input)
          /\ ~InSeq(e, walk.top)

\* C25: getTopElements called on the list a getTopElements call has returned
\* returns that list.
C25_TopElementsIdempotent ==
  (walk.op = "getTopElements" /\ walk.done /\ walk.again) => walk.top = walk.first

\* the second call has returned, and the first call had removed an element
\* and kept another
C25_Witness ==
  /\ walk.op = "getTopElements"
  /\ walk.done
  /\ walk.again
  /\ walk.first # << >>
  /\ Len(walk.first) < Len(Unique(walk.given))

----------------------------------------------------------------------------
\* Claims about the chain of groups (SpecIndex)

\* what getGroup(x) returns in the current state, {} for null
GroupNow(x) ==
  GetGroup(parentGroupMap, groupLike, ChildIdsOf(models, groupLike),
           Live \cup blockStore, x).group

\* C26: getGroups(id) returns, without throwing, in every state of the index,
\* cyclic group relations included; the list it returns holds no group twice,
\* starts with getGroup(id) and goes on with the group of the group before,
\* and it ends where there is no further group or where the next group is
\* already in the list.
C26_GetGroupsChain ==
  hist.op = "getGroups" =>
    LET c == hist.chain
    IN /\ NoRepeat(c)
       /\ IF c = << >> THEN GroupNow(hist.id) = {}
          ELSE /\ GroupNow(hist.id) = {c[1]}
               /\ \A i \in 1..(Len(c) - 1) : GroupNow(c[i]) = {c[i + 1]}
               /\ GroupNow(c[Len(c)]) \subseteq SeqSet(c)
               /\ hist.cut <=> GroupNow(c[Len(c)]) # {}

\* getGroups has returned two groups of a cycle and logged the warning
C26_Witness ==
  /\ hist.op = "getGroups"
  /\ hist.cut
  /\ Len(hist.chain) >= 2

----------------------------------------------------------------------------
\* Claims about ungroupCommand and its index generation (SpecUngroup)

Ungrouped == ungroup.op = "ungrouped" /\ Len(ungroup.elements) >= 1

StrictlyIncreasing(keys) == \A i, j \in 1..Len(keys) : i < j => keys[i] < keys[j]

\* C27: whatever the sibling bounds are (absent, equal, reversed, no valid
\* key) and whatever the generator does on the four batched calls, an ungroup
\* of n >= 1 children whose key-by-key generator keeps its contract ends with
\* exactly n keys in strictly increasing order, and every child has one of
\* them, a valid key, as its index.
C27_UngroupIndexesAlwaysValid ==
  (Ungrouped /\ ungroup.gen.single = 0) =>
    /\ Len(ungroup.keys) = Len(ungroup.elements)
    /\ StrictlyIncreasing(ungroup.keys)
    /\ \A c \in SeqSet(ungroup.elements) :
         /\ ungroup.index[c] # NoKey
         /\ ungroup.index[c] \subseteq SeqSet(ungroup.keys)
         /\ InvalidKey \notin ungroup.index[c]

\* an ungroup of two or more children between reversed sibling bounds whose
\* batched calls all failed and whose keys come from the key-by-key generation
C27_Witness ==
  /\ Ungrouped
  /\ ungroup.gen.single = 0
  /\ Len(ungroup.elements) >= 2
  /\ ungroup.afterIndex = {2 * KeyGap}
  /\ ungroup.beforeIndex = {KeyGap}
  /\ Len(ungroup.calls) = 4 + Len(ungroup.elements)
  /\ Len(ungroup.keys) = Len(ungroup.elements)

BatchedCalls == SelectSeq(ungroup.calls, LAMBDA c : c.fn = "generateNKeysBetween")
SingleCalls == SelectSeq(ungroup.calls, LAMBDA c : c.fn = "generateKeyBetween")

\* the batched call the i-th strategy makes, and what the generator does on it
ExpectedCall(i) ==
  LET n == Len(ungroup.elements)
  IN IF i = 1 THEN NCall(ungroup.afterIndex, ungroup.beforeIndex, n)
     ELSE IF i = 2 THEN NCall(ungroup.afterIndex, NoKey, n)
     ELSE IF i = 3 THEN NCall({ungroup.anchor}, NoKey, n)
     ELSE NCall(NoKey, NoKey, n)

Attempt(i) ==
  TryGenerateN(ungroup.gen, i, ExpectedCall(i).left, ExpectedCall(i).right,
               Len(ungroup.elements))

\* C28: the batched calls are made in the order (after, before), (after, null),
\* (fallbackAnchor, null), (null, null), each at most once and only when every
\* earlier one threw or returned a number of keys other than n; the keys of
\* the first one that succeeds are the result and no call follows it; when all
\* four failed, the key-by-key calls follow, exactly n of them when none of
\* them throws, each starting from the key before, and their keys are the
\* result.
C28_StrategiesInOrder ==
  Ungrouped =>
    LET n == Len(ungroup.elements)
        k == Len(BatchedCalls)
    IN /\ k \in 1..4
       /\ ungroup.calls = BatchedCalls \o SingleCalls
       /\ \A i \in 1..k : BatchedCalls[i] = ExpectedCall(i)
       /\ \A i \in 1..(k - 1) : ~Attempt(i).ok
       /\ Attempt(k).ok => /\ ungroup.keys = Attempt(k).keys
                           /\ SingleCalls = << >>
       /\ ~Attempt(k).ok =>
            /\ k = 4
            /\ ungroup.gen.single = 0 =>
                 /\ Len(SingleCalls) = n
                 /\ Len(ungroup.keys) = n
                 /\ \A j \in 1..n :
                      SingleCalls[j] =
                        OneCall(IF j = 1 THEN NoKey ELSE {ungroup.keys[j - 1]}, NoKey)

\* all four batched calls failed and the key-by-key generation made a call
\* for each of two or more children
C28_Witness ==
  /\ Ungrouped
  /\ Len(ungroup.elements) >= 2
  /\ Len(BatchedCalls) = 4
  /\ Len(SingleCalls) = Len(ungroup.elements)
  /\ Len(ungroup.keys) = Len(ungroup.elements)

\* C29: when n keys were generated for the n children of the group, the
\* child that is i-th in layer order has the i-th key as its index, whatever
\* the order the group stores its children in, so a child that is below
\* another in layer order has the smaller index.
C29_KeysFollowLayerOrder ==
  (Ungrouped /\ Len(ungroup.keys) = Len(ungroup.elements)) =>
    /\ \A i \in 1..Len(ungroup.elements) : ungroup.index[i] = {ungroup.keys[i]}
    /\ \A a, b \in SeqSet(ungroup.elements) :
         LayerCompare(a, b) < 0 => MinOf(ungroup.index[a]) < MinOf(ungroup.index[b])

\* an ungroup of a group that stores a child before one that is below it
C29_Witness ==
  /\ Ungrouped
  /\ Len(ungroup.keys) = Len(ungroup.elements)
  /\ Len(ungroup.elements) >= 2
  /\ LayerCompare(ungroup.elements[1], ungroup.elements[2]) > 0
  /\ ungroup.index[ungroup.elements[1]] # ungroup.index[ungroup.elements[2]]

----------------------------------------------------------------------------
\* Claims about stash and pop (SpecField)

\* C30: for a persisted field f, an assignment made while f is stashed makes
\* the model read the assigned value and leaves the yMap as it was, without
\* a storage write; pop(f) of a stashed f writes the overlay value to the
\* yMap in exactly one write and ends the stash; an assignment made while f
\* is not stashed, after a pop as before any stash, is written to the yMap.
C30_StashKeepsStorage ==
  [][\A f \in PersistedFields :
       /\ (field'.op.name = "assign" /\ field'.op.f = f /\ field.stashed[f] # {}) =>
            /\ ReadField(field', f) = field'.op.v
            /\ field'.yMap = field.yMap
            /\ field'.op.writes = 0
       /\ (field'.op.name = "pop" /\ field'.op.f = f /\ field.stashed[f] # {}) =>
            /\ field'.yMap[f] = field.stashed[f]
            /\ field'.op.writes = 1
            /\ field'.stashed[f] = {}
            /\ ReadField(field', f) = ReadField(field, f)
       /\ (field'.op.name = "assign" /\ field'.op.f = f /\ field.stashed[f] = {}) =>
            /\ field'.yMap[f] = {field'.op.v}
            /\ field'.op.writes = 1
            /\ ReadField(field', f) = field'.op.v]_vars

\* rotate is stashed and was assigned a value other than the stored one
C30_Witness ==
  /\ field.op.name = "assign"
  /\ field.op.f = "rotate"
  /\ field.stashed["rotate"] = {field.op.v}
  /\ field.yMap["rotate"] # field.stashed["rotate"]

\* C31: for a field that is not a persisted field, the stash is never
\* recorded and the yMap never gets an entry for it, whatever stash,
\* assignment and pop calls were made; each of these calls completes.
C31_LocalFieldNeverStored ==
  \A f \in FieldNames \ PersistedFields :
    /\ field.stashed[f] = {}
    /\ field.yMap[f] = {}
    /\ field.op.f = f => field.op.writes = 0

\* opacity was assigned a value and then popped
C31_Witness ==
  /\ field.op.name = "pop"
  /\ field.op.f = "opacity"
  /\ field.localValue["opacity"] # 0

----------------------------------------------------------------------------
\* Claims about createRafCoalescer (SpecCoalescer)

\* C32: at most one frame request is pending at any time, and a frame that
\* runs invokes apply exactly once, with the payload of the most recent
\* schedule call; whenever apply is invoked it is with that payload, so a
\* superseded payload is never applied.
C32_OneFrameLatestPayload ==
  [][/\ Cardinality(coalescer'.frames) <= 1
     /\ coalescer'.op = "frame" =>
          /\ coalescer'.applies = 1
          /\ coalescer'.applied = Append(coalescer.applied, coalescer.calls)
     /\ coalescer'.applied # coalescer.applied =>
          coalescer'.applied = Append(coalescer.applied, coalescer.calls)]_vars

\* a frame has applied the payload of the third schedule call, the first
\* two having been superseded
C32_Witness ==
  /\ coalescer.op = "frame"
  /\ coalescer.calls = 3
  /\ coalescer.applied = <<3>>

\* C39: a payload that was pending when cancel was called is never applied,
\* by a frame or by a flush; after a cancel no frame is pending, and a
\* schedule made while no frame is pending requests one and keeps its
\* payload for it.
C39_CancelDropsPayload ==
  [][/\ Applied(coalescer') \cap coalescer'.dropped = {}
     /\ coalescer'.op = "cancel" =>
          /\ coalescer'.frames = {}
          /\ coalescer'.rafId = 0
          /\ ~coalescer'.hasPendingPayload
     /\ (coalescer'.op = "schedule" /\ coalescer.rafId = 0) =>
          /\ coalescer'.rafId \in coalescer'.frames
          /\ coalescer'.rafId \notin coalescer.frames
          /\ coalescer'.pendingPayload = coalescer'.calls
          /\ coalescer'.hasPendingPayload]_vars

\* the first payload was dropped by a cancel and the second, scheduled
\* after it, was applied by a frame
C39_Witness ==
  /\ coalescer.op = "frame"
  /\ coalescer.dropped = {1}
  /\ coalescer.applied = <<2>>

----------------------------------------------------------------------------
\* Claims about AdaptiveStrideController (SpecController)

\* C40: with maxStride >= 1 the stride stays within 1..maxStride after any
\* sequence of reportCost, shouldSkip and reset; shouldSkip never returns
\* true while the stride is 1; and as long as every reportCost was made
\* while the latest tick was not a skipped one, shouldSkip has returned true
\* at most maxStride - 1 times in a row.
C40_StrideBounded ==
  /\ controller._stride \in 1..controller.maxStride
  /\ (controller.op = "shouldSkip" /\ controller.res) => controller._stride > 1
  /\ controller.orderly => controller.skipped <= controller.maxStride - 1

\* maxStride is 3 and, with every cost reported after a tick that ran, two
\* ticks in a row have just been skipped
C40_Witness ==
  /\ controller.op = "shouldSkip"
  /\ controller.orderly
  /\ controller.maxStride = 3
  /\ controller._stride = 3
  /\ controller.skipped = 2

----------------------------------------------------------------------------
\* Claims about the connector index during a batch (SpecConn)

\* the live connectors among the changed keys of the running batch that
\* have id as source or target
BatchConnectorsAt(id) ==
  {c \in LiveConnectors :
     /\ InSeq(c, batch.all)
     /\ c \in DOMAIN elements
     /\ id \in models[c].source \cup models[c].target}

\* C33: a getConnectors(id) made by a subscriber while the events of a
\* batch are being emitted returns every live connector of the batch that
\* has id as its source or target.
C33_BatchConnectorsIndexed ==
  (last.op = "getConnectors" /\ batch.active) =>
    BatchConnectorsAt(last.id) \subseteq last.res

----------------------------------------------------------------------------
\* Claims about the group index as a whole

\* C34: every entry c -> G of the parent index is backed by the children
\* snapshot: the snapshot has an entry for G and c is in it.
C34_ParentEntriesBacked ==
  \A c \in DOMAIN parentGroupMap :
    /\ parentGroupMap[c] \in DOMAIN groupChildIdsMap
    /\ c \in groupChildIdsMap[parentGroupMap[c]]

----------------------------------------------------------------------------
\* Claims about the connector index as a whole (SpecConn)

\* the ids the cached pair of c names
CachedEnds(c) == connEndpoints[c].sourceId \cup connEndpoints[c].targetId

\* C35: connector c is in the set indexed under endpoint e exactly when the
\* cached pair of c has e as sourceId or targetId, and no endpoint is mapped
\* to an empty set.
C35_IndexMatchesCachedPairs ==
  /\ \A e \in DOMAIN connByEndpoint :
       /\ connByEndpoint[e] # {}
       /\ \A c \in connByEndpoint[e] :
            c \in DOMAIN connEndpoints /\ e \in CachedEnds(c)
  /\ \A c \in DOMAIN connEndpoints :
       \A e \in CachedEnds(c) :
         e \in DOMAIN connByEndpoint /\ c \in connByEndpoint[e]

\* a connector whose source and target are the same element is indexed
\* after the endpoints of a connector were changed by an update
C35_Witness ==
  /\ last.op = "setConnectorEndpoints"
  /\ \E c \in DOMAIN connEndpoints :
       /\ connEndpoints[c].sourceId # {}
       /\ connEndpoints[c].sourceId = connEndpoints[c].targetId

----------------------------------------------------------------------------
\* Claims about canSafeAddToContainer (SpecGuard)

\* C36: when every addition is made only after canSafeAddToContainer has
\* returned true, the group graph stays acyclic, and canSafeAddToContainer
\* returns false when the element is the container or the container is a
\* descendant of the element.
C36_GuardedAddsKeepAcyclic ==
  /\ AcyclicGraph(walk.kids)
  /\ (walk.op = "addChild" /\ (walk.element = walk.container \/ walk.below)) =>
       ~walk.safe

----------------------------------------------------------------------------
\* Claims about isEmpty (Spec)

\* C37: whenever no transaction is open and no observer is due, isEmpty()
\* returns true exactly when the surface has no element model and no child
\* block.
C37_IsEmptyExact ==
  Settled => (isEmptyFlag <=> (DOMAIN models = {} /\ blockStore = {}))

----------------------------------------------------------------------------
\* Claims about the self-destruct rule on a read-only document (Spec)

\* C38: the delivery of the elementUpdated event of an update that leaves a
\* group without children raises no error.
C38_SelfDestructNeverThrows ==
  last.op = "elementUpdated" => last.threw = "none"

====
